---- MODULE Spec2Model ----
(***************************************************************************)
(* Model of the two-pass assembler of gate_computer_toolset.cpp            *)
(* (class AssemblerTool) for the 32-bit V2 ISA.                            *)
(*                                                                         *)
(* Text is held as TLA+ strings; a character is a string of length one.    *)
(* A 32-bit instruction word is held as a pair <<hi, lo>> of 16-bit limbs  *)
(* (hi = bits 16..31, lo = bits 0..15), because the integers of the model  *)
(* checker are 32-bit signed and cannot hold 0xFFFFFFFF.                   *)
(***************************************************************************)
EXTENDS Integers, Sequences, FiniteSets, TLC

(***************************************************************************)
(* Characters and <cctype>                                                 *)
(***************************************************************************)
Ch(s, i) == SubSeq(s, i, i)

Substr(s, pos) == SubSeq(s, pos, Len(s))

UpperChars == "ABCDEFGHIJKLMNOPQRSTUVWXYZ"

LowerChars == "abcdefghijklmnopqrstuvwxyz"

DigitChars == "0123456789"

HexLowerChars == "0123456789abcdef"

HexUpperChars == "0123456789ABCDEF"

InStr(c, chars) == \E i \in 1..Len(chars) : Ch(chars, i) = c

PosIn(c, chars) == CHOOSE i \in 1..Len(chars) : Ch(chars, i) = c

(* std::isspace in the C locale: space, \t, \n, \v, \f, \r *)
IsSpace(c) == c \in {" ", "\t", "\n", "", "\f", "\r"}

IsDigit(c) == InStr(c, DigitChars)

IsAlpha(c) == InStr(c, UpperChars) \/ InStr(c, LowerChars)

IsAlnum(c) == IsAlpha(c) \/ IsDigit(c)

ToUpperChar(c) == IF InStr(c, LowerChars) THEN Ch(UpperChars, PosIn(c, LowerChars)) ELSE c

RECURSIVE ToUpper(_)
ToUpper(s) == IF s = "" THEN "" ELSE ToUpperChar(Head(s)) \o ToUpper(Tail(s))

(* the characters in code order.  Codes 1 to 8 and 14 to 31 *)
ControlLowChars == ""

ControlHighChars == ""

(* code 11, the vertical tab *)
VerticalTab == ""

(* codes 32 (space) to 95 (_) *)
AsciiLowChars ==
    " !\"#$%&'()*+,-./0123456789:;<=>?@ABCDEFGHIJKLMNOPQRSTUVWXYZ[\\]^_"

(* code 96, the back quote: the first character of a two-character string *)
BackQuote == SubSeq("`'", 1, 1)

(* codes 97 (a) to 126 (~) *)
AsciiHighChars == "abcdefghijklmnopqrstuvwxyz{|}~"

(* code 127 *)
DeleteChar == ""

(* codes 128 to 255 *)
HighChars ==
    " ¡¢£¤¥¦§¨©ª«¬­®¯°±²³´µ¶·¸¹º»¼½¾¿ÀÁÂÃÄÅÆÇÈÉÊËÌÍÎÏÐÑÒÓÔÕÖ×ØÙÚÛÜÝÞßàáâãäåæçèéêëìíîïðñòóôõö÷øùúûüýþÿ"

(* the characters of codes 1 to 255 in code order *)
ByteChars ==
    ControlLowChars \o "\t\n" \o VerticalTab \o "\f\r" \o ControlHighChars
        \o AsciiLowChars \o BackQuote \o AsciiHighChars \o DeleteChar \o HighChars

(* (int)(unsigned char)c; the character of code 0 is the one not in ByteChars *)
CharCode(c) == IF InStr(c, ByteChars) THEN PosIn(c, ByteChars) ELSE 0

(* std::string::find_first_not_of(" \t"): 1-based position, 0 for npos *)
RECURSIVE FirstNotBlankFrom(_, _)
FirstNotBlankFrom(s, i) ==
    IF i > Len(s) THEN 0
    ELSE IF Ch(s, i) \notin {" ", "\t"} THEN i
    ELSE FirstNotBlankFrom(s, i + 1)

FindFirstNotBlank(s) == FirstNotBlankFrom(s, 1)

(* std::string::find_first_of(" \t"): 1-based position, 0 for npos *)
RECURSIVE FirstBlankFrom(_, _)
FirstBlankFrom(s, i) ==
    IF i > Len(s) THEN 0
    ELSE IF Ch(s, i) \in {" ", "\t"} THEN i
    ELSE FirstBlankFrom(s, i + 1)

FindFirstBlank(s) == FirstBlankFrom(s, 1)

(* std::string::find(c): 1-based position, 0 for npos *)
RECURSIVE FindCharFrom(_, _, _)
FindCharFrom(s, c, i) ==
    IF i > Len(s) THEN 0
    ELSE IF Ch(s, i) = c THEN i
    ELSE FindCharFrom(s, c, i + 1)

FindChar(s, c) == FindCharFrom(s, c, 1)

(***************************************************************************)
(* Integers of the program: 16-bit limbs, int (32 bit), long (64 bit)      *)
(***************************************************************************)
Pow2(n) == 2 ^ n

LimbBase == 2 ^ 16

RECURSIVE And16(_, _)
And16(a, b) ==
    IF a = 0 \/ b = 0 THEN 0
    ELSE 2 * And16(a \div 2, b \div 2) + (IF a % 2 = 1 /\ b % 2 = 1 THEN 1 ELSE 0)

RECURSIVE Or16(_, _)
Or16(a, b) ==
    IF a = 0 THEN b
    ELSE IF b = 0 THEN a
    ELSE 2 * Or16(a \div 2, b \div 2) + (IF a % 2 = 1 \/ b % 2 = 1 THEN 1 ELSE 0)

ZeroWord == <<0, 0>>

(* instr |= w *)
OrWord(v, w) == <<Or16(v[1], w[1]), Or16(v[2], w[2])>>

(* (uint32_t)x << n, for a 16-bit x *)
Shl(x, n) ==
    IF n >= 16 THEN <<(x * Pow2(n - 16)) % LimbBase, 0>>
    ELSE <<((x * Pow2(n)) \div LimbBase) % LimbBase, (x * Pow2(n)) % LimbBase>>

(* the value of a <<hi, lo>> pair read as a 32-bit two's complement int *)
ToInt32(v) ==
    IF v[1] >= 32768 THEN (v[1] - LimbBase) * LimbBase + v[2]
    ELSE v[1] * LimbBase + v[2]

DigitVal(c, base) ==
    IF IsDigit(c) THEN PosIn(c, DigitChars) - 1
    ELSE IF InStr(c, HexLowerChars) THEN PosIn(c, HexLowerChars) - 1
    ELSE IF InStr(c, HexUpperChars) THEN PosIn(c, HexUpperChars) - 1
    ELSE base

IsDigitOf(c, base) == DigitVal(c, base) < base

(* the digits of s from position i on that strtol consumes in this base *)
RECURSIVE DigitRun(_, _, _)
DigitRun(s, i, base) ==
    IF i > Len(s) \/ ~IsDigitOf(Ch(s, i), base) THEN ""
    ELSE Ch(s, i) \o DigitRun(s, i + 1, base)

RECURSIVE StripZeros(_)
StripZeros(d) == IF d # "" /\ Head(d) = "0" THEN StripZeros(Tail(d)) ELSE d

(* low 32 bits, as limbs, of the number written by the digit string d *)
RECURSIVE Low32(_, _, _)
Low32(d, base, acc) ==
    IF d = "" THEN acc
    ELSE LET lo == acc[2] * base + DigitVal(Head(d), base)
             hi == acc[1] * base + (lo \div LimbBase)
         IN  Low32(Tail(d), base, <<hi % LimbBase, lo % LimbBase>>)

(* d > m for digit strings of equal length *)
RECURSIVE DigitsGreater(_, _, _)
DigitsGreater(d, m, base) ==
    IF d = "" THEN FALSE
    ELSE IF DigitVal(Head(d), base) # DigitVal(Head(m), base)
         THEN DigitVal(Head(d), base) > DigitVal(Head(m), base)
    ELSE DigitsGreater(Tail(d), Tail(m), base)

(* LONG_MAX and -LONG_MIN of a 64-bit long, written in each base strtol is called with *)
LongMaxDigits(base) ==
    IF base = 16 THEN "7fffffffffffffff"
    ELSE IF base = 10 THEN "9223372036854775807"
    ELSE "111111111111111111111111111111111111111111111111111111111111111"

LongMinDigits(base) ==
    IF base = 16 THEN "8000000000000000"
    ELSE IF base = 10 THEN "9223372036854775808"
    ELSE "1000000000000000000000000000000000000000000000000000000000000000"

ExceedsDigits(d, m, base) ==
    \/ Len(d) > Len(m)
    \/ Len(d) = Len(m) /\ DigitsGreater(d, m, base)

(* two's complement negation of a 32-bit limb pair *)
Neg32(v) ==
    IF v = ZeroWord THEN ZeroWord
    ELSE IF v[2] = 0 THEN <<LimbBase - v[1], 0>>
    ELSE <<LimbBase - 1 - v[1], LimbBase - v[2]>>

(***************************************************************************)
(* (int)strtol(s, nullptr, base): optional white space, optional sign,     *)
(* optional 0x prefix in base 16, then digits; the long saturates at       *)
(* LONG_MAX / LONG_MIN and the conversion to int keeps the low 32 bits.    *)
(***************************************************************************)
RECURSIVE SkipSpace(_, _)
SkipSpace(s, i) == IF i <= Len(s) /\ IsSpace(Ch(s, i)) THEN SkipSpace(s, i + 1) ELSE i

(* the value once the digits d are known: saturation, sign, low 32 bits *)
StrtolValue(d, base, neg) ==
    IF ExceedsDigits(d, IF neg THEN LongMinDigits(base) ELSE LongMaxDigits(base), base)
    THEN (IF neg THEN 0 ELSE -1)
    ELSE ToInt32(IF neg THEN Neg32(Low32(d, base, ZeroWord)) ELSE Low32(d, base, ZeroWord))

(* from position i, after the sign: the 0x prefix of base 16, then the digits *)
StrtolDigits(s, base, neg, i) ==
    StrtolValue(StripZeros(DigitRun(s,
                                    IF /\ base = 16
                                       /\ i + 2 <= Len(s)
                                       /\ Ch(s, i) = "0"
                                       /\ Ch(s, i + 1) \in {"x", "X"}
                                       /\ IsDigitOf(Ch(s, i + 2), 16)
                                    THEN i + 2 ELSE i,
                                    base)),
                base, neg)

(* from position i, after the white space: the sign *)
StrtolSign(s, base, i) ==
    StrtolDigits(s, base, i <= Len(s) /\ Ch(s, i) = "-",
                 IF i <= Len(s) /\ Ch(s, i) \in {"-", "+"} THEN i + 1 ELSE i)

StrtolInt(s, base) == StrtolSign(s, base, SkipSpace(s, 1))

(* std::atoi, as the C library computes it: (int)strtol(s, nullptr, 10) *)
Atoi(s) == StrtolInt(s, 10)

(* std::to_string of a non-negative int *)
RECURSIVE ToDecimal(_)
ToDecimal(n) ==
    IF n < 10 THEN Ch(DigitChars, n + 1)
    ELSE ToDecimal(n \div 10) \o Ch(DigitChars, (n % 10) + 1)

(* conversion of an int argument to a uint8_t / uint16_t parameter *)
U8(x) == x % 256

U16(x) == x % LimbBase

(***************************************************************************)
(* The instruction catalogue: IsaSpec::generateISASpec                     *)
(***************************************************************************)
AluMnemonics ==
    <<"AND", "OR", "XOR", "NOT", "ADD", "SUB", "LSL", "LSR", "BCDL", "BCDH",
      "UMUL_L", "UMUL_H", "MUL_L", "MUL_H", "NUL0E", "NUL0F">>

Tech(mn, op, ty, imm) == [mnemonic |-> mn, opcode |-> op, type |-> ty, IMMEDIATE |-> imm]

AluTech ==
    [k \in 1..32 |->
        LET i == (k - 1) \div 2
        IN  IF k % 2 = 1 THEN Tech(AluMnemonics[i + 1], 0 + i, "TYPE_ALU", FALSE)
            ELSE Tech(AluMnemonics[i + 1], 16 + i, "TYPE_ALU", TRUE)]

FpuTech ==
    [k \in 1..32 |->
        LET i == (k - 1) \div 2
        IN  IF k % 2 = 1 THEN Tech("FNUL" \o ToDecimal(i), 32 + i, "TYPE_FPU", FALSE)
            ELSE Tech("FNUL" \o ToDecimal(i), 48 + i, "TYPE_FPU", TRUE)]

OtherTech ==
    << Tech("MOV",   64, "TYPE_MOVE", FALSE),
       Tech("MOV",   65, "TYPE_MOVE", TRUE),
       Tech("CMP",   66, "TYPE_CMP", FALSE),
       Tech("CMP",   67, "TYPE_CMP", TRUE),
       Tech("B",     68, "TYPE_BRANCH", FALSE),
       Tech("B",     69, "TYPE_BRANCH", TRUE),
       Tech("READ",  70, "TYPE_MEMORY", FALSE),
       Tech("READ",  71, "TYPE_MEMORY", TRUE),
       Tech("WRITE", 72, "TYPE_MEMORY", FALSE),
       Tech("WRITE", 73, "TYPE_MEMORY", TRUE),
       Tech("PRINT", 74, "TYPE_PRINT_REG", FALSE),
       Tech("PRINT", 75, "TYPE_PRINT_REG", TRUE),
       Tech("PRINT", 76, "TYPE_PRINT_CONST", FALSE),
       Tech("PRINT", 77, "TYPE_PRINT_CONST", TRUE),
       Tech("EXIT", 255, "TYPE_SERVICE", FALSE) >>

instructions_tech == AluTech \o FpuTech \o OtherTech

branch_conditions ==
    << <<"B", 0>>, <<"BEQ", 1>>, <<"BNE", 2>>, <<"BLT", 3>>, <<"BLE", 4>>,
       <<"BGT", 5>>, <<"BGE", 6>>, <<"BCS", 7>>, <<"BCC", 8>>, <<"BMI", 9>>,
       <<"BPL", 10>>, <<"BVS", 11>>, <<"BVC", 12>>, <<"BHI", 13>>, <<"BLS", 14>> >>

(* index of the first element of a sequence that satisfies P, 0 when none does *)
FirstIndex(seq, P(_)) ==
    IF \E i \in 1..Len(seq) : P(seq[i])
    THEN CHOOSE i \in 1..Len(seq) : P(seq[i]) /\ \A j \in 1..(i - 1) : ~P(seq[j])
    ELSE 0

isAluOperation(mnemonic) ==
    \E i \in 1..Len(instructions_tech) :
        /\ instructions_tech[i].mnemonic = mnemonic
        /\ instructions_tech[i].type = "TYPE_ALU"

InvalidOpcode == 255

findOpcode(mnemonic, immediate) ==
    LET Hit(e) == e.mnemonic = mnemonic /\ e.IMMEDIATE = immediate
        i == FirstIndex(instructions_tech, Hit)
    IN  IF i = 0 THEN InvalidOpcode ELSE instructions_tech[i].opcode

findOpcodeByType(mnemonic, type, immediate) ==
    LET Hit(e) == e.mnemonic = mnemonic /\ e.type = type /\ e.IMMEDIATE = immediate
        i == FirstIndex(instructions_tech, Hit)
    IN  IF i = 0 THEN InvalidOpcode ELSE instructions_tech[i].opcode

findBranchCondition(mnemonic) ==
    LET Hit(e) == e[1] = mnemonic
        i == FirstIndex(branch_conditions, Hit)
    IN  IF i = 0 THEN -1 ELSE branch_conditions[i][2]

parseBranchCondition(mnemonic) == findBranchCondition(mnemonic)

(***************************************************************************)
(* State of an AssemblerTool object and of the files it reads and writes   *)
(***************************************************************************)
VARIABLES
    console,        \* the answers typed at the two prompts of getInputs(), one pair per call to come
    inputFile,      \* the object's inputFile: the name of the file to assemble
    outputBase,     \* the object's outputBase: the common stem of the two output file names
    fileSystem,     \* what each call finds on disk: which files open, end in a newline, can be written
    files,          \* the input files of the successive execute() calls; a file is a sequence of lines
    run,            \* number of execute() calls started so far: files[run] is inputFile
    phase,          \* position in runTool(): "idle", "ready", "pass1", "pass2", "emit", "done"
    lineNo,         \* read position of the input stream: number of lines read by getline so far
    inMultiline,    \* the carried block-comment flag
    lineText,       \* execute()'s local `line`: the text getline read, as stripComments left it
    pc,             \* the Pass 1 program counter
    symbolTable,    \* std::vector<Label>: records [name, address]
    aliasTable,     \* std::vector<RegisterAlias>: records [alias, registerName]
    instructions,   \* std::vector<uint32_t>: the Program
    alphaData,      \* upper halves, 256 entries once built
    betaData,       \* lower halves, 256 entries once built
    errlog,         \* what execute() wrote to std::cerr: records [kind, line, text]
    outputs,        \* the bank files written by the finished execute() calls
    results,        \* history: the Program, the two tables and the banks at the end of each execute()
    labelLine,      \* history: the source line that pushed each entry of symbolTable
    wordLine,       \* history: the source line that pushed each entry of instructions
    pass1Read,      \* history: number of lines Pass 1 processed in its loop body
    pass2Read       \* history: number of lines Pass 2 processed in its loop body

vars == <<console, inputFile, outputBase, fileSystem, files, run, phase, lineNo, inMultiline, lineText, pc, symbolTable, aliasTable,
          instructions, alphaData, betaData, errlog, outputs, results, labelLine,
          wordLine, pass1Read, pass2Read>>

MAX_INSTR == 256

NumRegs == 8

MaxImmediate == 65535

(***************************************************************************)
(* Helpers of AssemblerTool                                                *)
(***************************************************************************)
ReservedMnemonics ==
    {"MOV", "CMP", "B", "BEQ", "BNE", "BLT", "BLE", "BGT", "BGE",
     "BCS", "BCC", "BMI", "BPL", "BVS", "BVC", "BHI", "BLS",
     "READ", "WRITE", "PRINT", "EXIT", "NOT"}

isValidAliasName(name) ==
    /\ name # ""
    /\ \A i \in 1..Len(name) : IsAlnum(Ch(name, i)) \/ Ch(name, i) = "_"
    /\ ~isAluOperation(name)
    /\ name \notin ReservedMnemonics

resolveAlias(str) ==
    LET Hit(a) == a.alias = str
        i == FirstIndex(aliasTable, Hit)
    IN  IF i = 0 THEN str ELSE aliasTable[i].registerName

(* -1 when the value is outside 0..max, else the value *)
InRange(value, max) == IF value < 0 \/ value > max THEN -1 ELSE value

RegisterNumber(resolved) ==
    IF Len(resolved) < 2 THEN -1
    ELSE IF Ch(resolved, 1) \notin {"X", "x"} THEN -1
    ELSE InRange(Atoi(Substr(resolved, 2)), NumRegs - 1)

parseRegister(str) == RegisterNumber(resolveAlias(str))

ConstantValue(str) ==
    IF Len(str) > 2 /\ Ch(str, 1) = "0" /\ Ch(str, 2) \in {"x", "X"}
    THEN StrtolInt(str, 16)
    ELSE IF Len(str) > 2 /\ Ch(str, 1) = "0" /\ Ch(str, 2) \in {"b", "B"}
    THEN StrtolInt(Substr(str, 3), 2)
    ELSE Atoi(str)

parseConstant(str) ==
    IF str = "" THEN -1
    ELSE IF Len(str) = 3 /\ Ch(str, 1) = "'" /\ Ch(str, 3) = "'" THEN CharCode(Ch(str, 2))
    ELSE InRange(ConstantValue(str), MaxImmediate)

(* the loop resuming one character after a `/*`, so that `/*/` is a whole comment *)
RECURSIVE StripFrom_openerOverlap(_, _, _, _)
StripFrom_openerOverlap(line, i, inML, result) ==
    LET len == Len(line)
    IN  IF i > len THEN [line |-> result, inMultiline |-> inML]
        ELSE IF inML
             THEN IF i < len /\ Ch(line, i) = "*" /\ Ch(line, i + 1) = "/"
                  THEN StripFrom_openerOverlap(line, i + 2, FALSE, result)
                  ELSE StripFrom_openerOverlap(line, i + 1, TRUE, result)
        ELSE IF i < len /\ Ch(line, i) = "/" /\ Ch(line, i + 1) = "*"
             THEN StripFrom_openerOverlap(line, i + 1, TRUE, result)
        ELSE IF i < len /\ Ch(line, i) = "/" /\ Ch(line, i + 1) = "/"
             THEN [line |-> result, inMultiline |-> inML]
        ELSE StripFrom_openerOverlap(line, i + 1, FALSE, result \o Ch(line, i))

(* stripComments: the loop from position i on, with the output built so far *)
RECURSIVE StripFrom(_, _, _, _)
StripFrom(line, i, inML, result) ==
    LET len == Len(line)
    IN  IF i > len THEN [line |-> result, inMultiline |-> inML]
        ELSE IF inML
             THEN IF i < len /\ Ch(line, i) = "*" /\ Ch(line, i + 1) = "/"
                  THEN StripFrom(line, i + 2, FALSE, result)
                  ELSE StripFrom(line, i + 1, TRUE, result)
        ELSE IF i < len /\ Ch(line, i) = "/" /\ Ch(line, i + 1) = "*"
             THEN StripFrom(line, i + 2, TRUE, result)
        ELSE IF i < len /\ Ch(line, i) = "/" /\ Ch(line, i + 1) = "/"
             THEN [line |-> result, inMultiline |-> inML]
        ELSE StripFrom(line, i + 1, FALSE, result \o Ch(line, i))

(* stripComments reading the carried flag negated *)
stripComments_flagNegated(line, inML) == StripFrom(line, 1, ~inML, "")

stripComments(line, inML) == StripFrom(line, 1, inML, "")

isLabel(line) ==
    LET colonPos == FindChar(line, ":")
    IN  IF colonPos = 0 THEN FALSE
        ELSE LET before == SubSeq(line, 1, colonPos - 1)
                 start  == FindFirstNotBlank(before)
             IN  IF start = 0 THEN FALSE
                 ELSE LET labelName == Substr(before, start)
                      IN  /\ labelName # ""
                          /\ \/ IsAlpha(Ch(labelName, 1))
                             \/ Ch(labelName, 1) = "_"
                             \/ Ch(labelName, 1) = "."

parseLabel(line) ==
    LET colonPos == FindChar(line, ":")
        before   == IF colonPos = 0 THEN line ELSE SubSeq(line, 1, colonPos - 1)
        start    == FindFirstNotBlank(before)
    IN  IF start # 0 THEN Substr(before, start) ELSE before

(* the lookup returning the last matching entry *)
lookupLabel_lastMatch(name) ==
    LET hits == { i \in 1..Len(symbolTable) : symbolTable[i].name = name }
    IN  IF hits = {} THEN -1
        ELSE symbolTable[CHOOSE i \in hits : \A j \in hits : j <= i].address

lookupLabel(name) ==
    LET Hit(l) == l.name = name
        i == FirstIndex(symbolTable, Hit)
    IN  IF i = 0 THEN -1 ELSE symbolTable[i].address

(* tokenize: split at commas and white space, dropping empty tokens *)
RECURSIVE TokenizeFrom(_, _, _, _)
TokenizeFrom(str, i, current, tokens) ==
    IF i > Len(str)
    THEN IF current # "" THEN Append(tokens, current) ELSE tokens
    ELSE IF Ch(str, i) = "," \/ IsSpace(Ch(str, i))
         THEN IF current # "" THEN TokenizeFrom(str, i + 1, "", Append(tokens, current))
              ELSE TokenizeFrom(str, i + 1, "", tokens)
    ELSE TokenizeFrom(str, i + 1, current \o Ch(str, i), tokens)

tokenize(str) == TokenizeFrom(str, 1, "", <<>>)

(* std::istringstream >> word: the white-space separated words of a string *)
RECURSIVE WordsFrom(_, _, _, _)
WordsFrom(str, i, current, words) ==
    IF i > Len(str)
    THEN IF current # "" THEN Append(words, current) ELSE words
    ELSE IF IsSpace(Ch(str, i))
         THEN IF current # "" THEN WordsFrom(str, i + 1, "", Append(words, current))
              ELSE WordsFrom(str, i + 1, "", words)
    ELSE WordsFrom(str, i + 1, current \o Ch(str, i), words)

Words(str) == WordsFrom(str, 1, "", <<>>)

(***************************************************************************)
(* Encoding functions.  The arguments arrive converted to the parameter     *)
(* types (uint8_t, uint16_t); the result is the uint32_t as <<hi, lo>>.     *)
(***************************************************************************)
(* encodeAlu with the destination and first-source fields exchanged *)
encodeAlu_fieldsExchanged(op, dst, src1, src2, isImmediate) ==
    LET actualOpcode == IF isImmediate THEN Or16(op, 16) ELSE op
        i1 == OrWord(Shl(actualOpcode, 0), Shl(And16(dst, 7), 12))
    IN  IF ~isImmediate
        THEN OrWord(OrWord(i1, Shl(And16(src1, 7), 8)), Shl(And16(src2, 7), 16))
        ELSE OrWord(OrWord(i1, Shl(And16(src1, 7), 8)), Shl(And16(src2, 65535), 16))

encodeAlu(op, dst, src1, src2, isImmediate) ==
    LET actualOpcode == IF isImmediate THEN Or16(op, 16) ELSE op
        i1 == OrWord(Shl(actualOpcode, 0), Shl(And16(dst, 7), 8))
    IN  IF ~isImmediate
        THEN OrWord(OrWord(i1, Shl(And16(src1, 7), 12)), Shl(And16(src2, 7), 16))
        ELSE OrWord(OrWord(i1, Shl(And16(src1, 7), 12)), Shl(And16(src2, 65535), 16))

encodeMove(dst, srcOrImm, isImmediate) ==
    LET moveOp == findOpcode("MOV", isImmediate)
        i1 == OrWord(Shl(moveOp, 0), Shl(And16(dst, 7), 8))
    IN  IF ~isImmediate
        THEN OrWord(i1, Shl(And16(srcOrImm, 7), 12))
        ELSE OrWord(i1, Shl(And16(srcOrImm, 65535), 16))

encodeCmp(src1, src2, isImmediate) ==
    LET cmpOp == findOpcode("CMP", isImmediate)
        i1 == OrWord(Shl(cmpOp, 0), Shl(And16(src1, 7), 12))
    IN  IF ~isImmediate
        THEN OrWord(i1, Shl(And16(src2, 7), 16))
        ELSE OrWord(i1, Shl(And16(src2, 65535), 16))

encodeBranch(condition, target, isImmediate) ==
    LET branchOp == findOpcode("B", isImmediate)
        i1 == OrWord(Shl(branchOp, 0), Shl(And16(condition, 15), 8))
    IN  IF isImmediate
        THEN OrWord(i1, Shl(And16(target, 65535), 16))
        ELSE OrWord(i1, Shl(And16(target, 15), 16))

encodeRead(dst, addrReg) ==
    OrWord(OrWord(Shl(findOpcode("READ", FALSE), 0), Shl(And16(dst, 7), 8)),
           Shl(And16(addrReg, 7), 16))

encodeReadI(dst, addrImm) ==
    OrWord(OrWord(Shl(findOpcode("READ", TRUE), 0), Shl(And16(dst, 7), 8)),
           Shl(And16(addrImm, 65535), 16))

encodeWrite(dataReg, addrReg) ==
    OrWord(OrWord(Shl(findOpcode("WRITE", FALSE), 0), Shl(And16(dataReg, 7), 12)),
           Shl(And16(addrReg, 7), 16))

encodeWriteI(dataReg, addrImm) ==
    OrWord(OrWord(Shl(findOpcode("WRITE", TRUE), 0), Shl(And16(dataReg, 7), 12)),
           Shl(And16(addrImm, 65535), 16))

encodePrintReg(dataReg, posReg) ==
    OrWord(OrWord(Shl(findOpcodeByType("PRINT", "TYPE_PRINT_REG", FALSE), 0),
                  Shl(And16(dataReg, 7), 12)),
           Shl(And16(posReg, 7), 16))

encodePrintRegI(dataReg, posImm) ==
    OrWord(OrWord(Shl(findOpcodeByType("PRINT", "TYPE_PRINT_REG", TRUE), 0),
                  Shl(And16(dataReg, 7), 12)),
           Shl(And16(posImm, 255), 16))

encodePrintConst(dataConst, posReg) ==
    OrWord(OrWord(Shl(findOpcodeByType("PRINT", "TYPE_PRINT_CONST", FALSE), 0),
                  Shl(And16(posReg, 7), 16)),
           Shl(And16(dataConst, 255), 24))

encodePrintConstI(dataConst, posImm) ==
    OrWord(OrWord(Shl(findOpcodeByType("PRINT", "TYPE_PRINT_CONST", TRUE), 0),
                  Shl(And16(posImm, 255), 16)),
           Shl(And16(dataConst, 255), 24))

(***************************************************************************)
(* parseInstruction: the result is the pair of the error flag and the      *)
(* returned word.  One operator per mnemonic family, in the order tried.   *)
(***************************************************************************)
Failed == [error |-> TRUE, instr |-> ZeroWord]

Encoded(w) == [error |-> FALSE, instr |-> w]

ExitWord == <<LimbBase - 1, LimbBase - 1>>

(* In the operators below a local operator takes each parsed operand as a  *)
(* parameter, in the order parseInstruction computes them.                 *)
(* LR loading the number of the instruction after it *)
ParseLR_nextIndex(tokens, instructionNumber) ==
    LET Load(dst) ==
            IF dst = -1 THEN Failed
            ELSE IF instructionNumber = -1 THEN Failed
            ELSE Encoded(encodeMove(U8(dst), U16(instructionNumber + 1), TRUE))
    IN  IF Len(tokens) # 1 THEN Failed ELSE Load(parseRegister(tokens[1]))

ParseLR(tokens, instructionNumber) ==
    LET Load(dst) ==
            IF dst = -1 THEN Failed
            ELSE IF instructionNumber = -1 THEN Failed
            ELSE Encoded(encodeMove(U8(dst), U16(instructionNumber), TRUE))
    IN  IF Len(tokens) # 1 THEN Failed ELSE Load(parseRegister(tokens[1]))

ParseAlu3(op, tokens) ==
    LET Immediate(dst, src1, src2Const) ==
            IF src2Const = -1 THEN Failed
            ELSE Encoded(encodeAlu(op, U8(dst), U16(src1), U16(src2Const), TRUE))
        Source2(dst, src1, src2Reg) ==
            IF src2Reg # -1
            THEN Encoded(encodeAlu(op, U8(dst), U16(src1), U16(src2Reg), FALSE))
            ELSE Immediate(dst, src1, parseConstant(tokens[3]))
        Operands(dst, src1) ==
            IF dst = -1 \/ src1 = -1 THEN Failed
            ELSE Source2(dst, src1, parseRegister(tokens[3]))
    IN  Operands(parseRegister(tokens[1]), parseRegister(tokens[2]))

ParseAlu2(op, tokens) ==
    LET Immediate(dst, srcConst) ==
            IF srcConst = -1 THEN Failed
            ELSE Encoded(encodeAlu(op, U8(dst), U16(srcConst), 0, TRUE))
        Source(dst, srcReg) ==
            IF srcReg # -1 THEN Encoded(encodeAlu(op, U8(dst), U16(srcReg), 0, FALSE))
            ELSE Immediate(dst, parseConstant(tokens[2]))
        Operands(dst) ==
            IF dst = -1 THEN Failed ELSE Source(dst, parseRegister(tokens[2]))
    IN  Operands(parseRegister(tokens[1]))

ParseAlu(mnemonic, tokens) ==
    IF Len(tokens) = 3 THEN ParseAlu3(findOpcode(mnemonic, FALSE), tokens)
    ELSE IF Len(tokens) = 2 THEN ParseAlu2(findOpcode(mnemonic, FALSE), tokens)
    ELSE Failed

ParseNot(tokens) ==
    LET Operands(dst) ==
            IF dst = -1 THEN Failed
            ELSE Encoded(encodeAlu(findOpcode("NOT", FALSE), U8(dst), 0, 0, FALSE))
    IN  IF Len(tokens) # 1 THEN Failed ELSE Operands(parseRegister(tokens[1]))

ParseMov(tokens) ==
    LET Immediate(dst, srcConst) ==
            IF srcConst = -1 THEN Failed
            ELSE Encoded(encodeMove(U8(dst), U16(srcConst), TRUE))
        Source(dst, srcReg) ==
            IF srcReg # -1 THEN Encoded(encodeMove(U8(dst), U16(srcReg), FALSE))
            ELSE Immediate(dst, parseConstant(tokens[2]))
        Operands(dst) ==
            IF dst = -1 THEN Failed ELSE Source(dst, parseRegister(tokens[2]))
    IN  IF Len(tokens) # 2 THEN Failed ELSE Operands(parseRegister(tokens[1]))

ParseCmp(tokens) ==
    LET Immediate(src1, src2Const) ==
            IF src2Const = -1 THEN Failed
            ELSE Encoded(encodeCmp(U8(src1), U16(src2Const), TRUE))
        Source2(src1, src2Reg) ==
            IF src2Reg # -1 THEN Encoded(encodeCmp(U8(src1), U16(src2Reg), FALSE))
            ELSE Immediate(src1, parseConstant(tokens[2]))
        Operands(src1) ==
            IF src1 = -1 THEN Failed ELSE Source2(src1, parseRegister(tokens[2]))
    IN  IF Len(tokens) # 2 THEN Failed ELSE Operands(parseRegister(tokens[1]))

ParseBranch(condition, tokens) ==
    LET Target(target) ==
            IF target < 0 \/ target > MaxImmediate THEN Failed
            ELSE Encoded(encodeBranch(U8(condition), U16(target), TRUE))
        Immediate(constant) ==
            IF constant = 0 /\ tokens[1] # "0"
            THEN (IF lookupLabel(tokens[1]) < 0 THEN Failed
                  ELSE Target(lookupLabel(tokens[1])))
            ELSE Target(constant)
        Operands(targetReg) ==
            IF targetReg # -1
            THEN Encoded(encodeBranch(U8(condition), U16(targetReg), FALSE))
            ELSE Immediate(parseConstant(tokens[1]))
    IN  IF Len(tokens) # 1 THEN Failed ELSE Operands(parseRegister(tokens[1]))

ParseRead(tokens) ==
    LET Immediate(dst, addrImm) ==
            IF addrImm < 0 \/ addrImm > MaxImmediate THEN Failed
            ELSE Encoded(encodeReadI(U8(dst), U16(addrImm)))
        Address(dst, addrReg) ==
            IF addrReg # -1 THEN Encoded(encodeRead(U8(dst), U8(addrReg)))
            ELSE Immediate(dst, parseConstant(tokens[2]))
        Operands(dst) ==
            IF dst = -1 THEN Failed ELSE Address(dst, parseRegister(tokens[2]))
    IN  IF Len(tokens) # 2 THEN Failed ELSE Operands(parseRegister(tokens[1]))

ParseWrite(tokens) ==
    LET Immediate(dataReg, addrImm) ==
            IF addrImm < 0 \/ addrImm > MaxImmediate THEN Failed
            ELSE Encoded(encodeWriteI(U8(dataReg), U16(addrImm)))
        Address(dataReg, addrReg) ==
            IF addrReg # -1 THEN Encoded(encodeWrite(U8(dataReg), U8(addrReg)))
            ELSE Immediate(dataReg, parseConstant(tokens[2]))
        Operands(dataReg) ==
            IF dataReg = -1 THEN Failed ELSE Address(dataReg, parseRegister(tokens[2]))
    IN  IF Len(tokens) # 2 THEN Failed ELSE Operands(parseRegister(tokens[1]))

MaxScreen == 255

ParsePrint(tokens) ==
    LET Constants(addrImm, codeConst) ==
            IF addrImm < 0 \/ addrImm > MaxScreen \/ codeConst < 0 \/ codeConst > MaxScreen
            THEN Failed
            ELSE Encoded(encodePrintConstI(U16(codeConst), U8(addrImm)))
        RegisterAt(codeReg, addrImm) ==
            IF addrImm < 0 \/ addrImm > MaxScreen THEN Failed
            ELSE Encoded(encodePrintRegI(U8(codeReg), U8(addrImm)))
        ConstantAt(addrReg, codeConst) ==
            IF codeConst < 0 \/ codeConst > MaxScreen THEN Failed
            ELSE Encoded(encodePrintConst(U8(codeConst), U8(addrReg)))
        Operands(addrReg, codeReg) ==
            IF addrReg # -1 /\ codeReg # -1
            THEN Encoded(encodePrintReg(U8(codeReg), U8(addrReg)))
            ELSE IF addrReg = -1 /\ codeReg # -1
            THEN RegisterAt(codeReg, parseConstant(tokens[1]))
            ELSE IF addrReg # -1 /\ codeReg = -1
            THEN ConstantAt(addrReg, parseConstant(tokens[2]))
            ELSE Constants(parseConstant(tokens[1]), parseConstant(tokens[2]))
    IN  IF Len(tokens) # 2 THEN Failed
        ELSE Operands(parseRegister(tokens[1]), parseRegister(tokens[2]))

(* the part of parseInstruction after the mnemonic and the operands are extracted *)
ParseMnemonic(mnemonic, tokens, instructionNumber) ==
    IF mnemonic = "LR" THEN ParseLR(tokens, instructionNumber)
    ELSE IF mnemonic = "EXIT" THEN Encoded(ExitWord)
    ELSE IF isAluOperation(mnemonic) THEN ParseAlu(mnemonic, tokens)
    ELSE IF mnemonic = "NOT" THEN ParseNot(tokens)
    ELSE IF mnemonic = "MOV" THEN ParseMov(tokens)
    ELSE IF mnemonic = "CMP" THEN ParseCmp(tokens)
    ELSE IF parseBranchCondition(mnemonic) >= 0
    THEN ParseBranch(parseBranchCondition(mnemonic), tokens)
    ELSE IF mnemonic = "READ" THEN ParseRead(tokens)
    ELSE IF mnemonic = "WRITE" THEN ParseWrite(tokens)
    ELSE IF mnemonic = "PRINT" THEN ParsePrint(tokens)
    ELSE Failed

(* parseInstruction looking the mnemonic up as written, without std::toupper *)
ParseTrimmed_caseKept(trimmed, spacePos, instructionNumber) ==
    IF trimmed = "" \/ Ch(trimmed, 1) = ";" \/ Ch(trimmed, 1) = "#" THEN Encoded(ZeroWord)
    ELSE IF isLabel(trimmed) THEN Encoded(ZeroWord)
    ELSE ParseMnemonic(IF spacePos = 0 THEN trimmed ELSE SubSeq(trimmed, 1, spacePos - 1),
                       tokenize(IF spacePos = 0 THEN "" ELSE Substr(trimmed, spacePos + 1)),
                       instructionNumber)

(* the part of parseInstruction after the leading white space is trimmed *)
ParseTrimmed(trimmed, spacePos, instructionNumber) ==
    IF trimmed = "" \/ Ch(trimmed, 1) = ";" \/ Ch(trimmed, 1) = "#" THEN Encoded(ZeroWord)
    ELSE IF isLabel(trimmed) THEN Encoded(ZeroWord)
    ELSE ParseMnemonic(ToUpper(IF spacePos = 0 THEN trimmed
                               ELSE SubSeq(trimmed, 1, spacePos - 1)),
                       tokenize(IF spacePos = 0 THEN "" ELSE Substr(trimmed, spacePos + 1)),
                       instructionNumber)

(* line.substr(start), for start the result of find_first_not_of *)
TrimLeft(line) ==
    IF FindFirstNotBlank(line) = 0 THEN "" ELSE Substr(line, FindFirstNotBlank(line))

parseInstruction(line, instructionNumber) ==
    IF FindFirstNotBlank(line) = 0 THEN Encoded(ZeroWord)
    ELSE ParseTrimmed(TrimLeft(line), FindFirstBlank(TrimLeft(line)), instructionNumber)

(***************************************************************************)
(* execute(): the #ALIAS directive of Pass 1.  The result is the alias     *)
(* table after the directive and the diagnostic written, "" when none.     *)
(***************************************************************************)
(* first, the directive with every valid mapping appended as a new entry *)
AliasDirective_appendAlways(table, trimmed) ==
    LET words     == Words(Substr(trimmed, 7))
        regName   == IF Len(words) >= 1 THEN words[1] ELSE ""
        aliasName == IF Len(words) >= 2 THEN words[2] ELSE ""
        regNum    == IF Len(regName) >= 2 /\ Ch(regName, 1) \in {"X", "x"}
                     THEN Atoi(Substr(regName, 2)) ELSE -1
    IN  IF regNum < 0 \/ regNum > NumRegs - 1
        THEN [table |-> table, error |-> "Error: Invalid register in #ALIAS", text |-> regName]
        ELSE IF ~isValidAliasName(aliasName)
        THEN [table |-> table, error |-> "Error: Invalid alias name", text |-> aliasName]
        ELSE [table |-> Append(table, [alias |-> aliasName, registerName |-> regName]),
              error |-> "", text |-> ""]

(* the directive as execute() has it: the first entry found is overwritten *)
AliasDirective(table, trimmed) ==
    LET words     == Words(Substr(trimmed, 7))
        regName   == IF Len(words) >= 1 THEN words[1] ELSE ""
        aliasName == IF Len(words) >= 2 THEN words[2] ELSE ""
        regNum    == IF Len(regName) >= 2 /\ Ch(regName, 1) \in {"X", "x"}
                     THEN Atoi(Substr(regName, 2)) ELSE -1
        Hit(a)    == a.alias = aliasName
        found     == FirstIndex(table, Hit)
    IN  IF regNum < 0 \/ regNum > NumRegs - 1
        THEN [table |-> table, error |-> "Error: Invalid register in #ALIAS", text |-> regName]
        ELSE IF ~isValidAliasName(aliasName)
        THEN [table |-> table, error |-> "Error: Invalid alias name", text |-> aliasName]
        ELSE [table |-> IF found # 0 THEN [table EXCEPT ![found].registerName = regName]
                        ELSE Append(table, [alias |-> aliasName, registerName |-> regName]),
              error |-> "", text |-> ""]

IsAliasLine(trimmed) == Len(trimmed) > 6 /\ SubSeq(trimmed, 1, 6) = "#ALIAS"

(* a line written to std::cerr by execute() *)
Diagnostic(pass, n, msg, text) ==
    [run |-> run, pass |-> pass, line |-> n, msg |-> msg, text |-> text]

(* a line written to std::cerr outside the two passes, in call r *)
Notice(r, msg) == [run |-> r, pass |-> 0, line |-> 0, msg |-> msg, text |-> ""]

(* DigitalLogicSimHelper: the chip file of the simulator project *)
basePath ==
    "C:\\Users\\Limey\\AppData\\LocalLow\\SebastianLague\\Digital-Logic-Sim\\Projects\\16-Bit Computer 1.3\\Chips\\"

jsonPath == basePath \o "16-CPU" \o ".json"

(* one update of updateMultipleSubchips: what it writes to std::cerr *)
UpdateSubchip(found, subchipLabel) ==
    IF found = "no label"
    THEN << "Warning: Could not find subchip with label '" \o subchipLabel \o "'" >>
    ELSE IF found = "no data"
    THEN << "Warning: Could not find InternalData for '" \o subchipLabel \o "'" >>
    ELSE <<>>

(* updateDigitalLogicSimRom: the std::cerr lines of updateMultipleSubchips *)
updateMultipleSubchips(project) ==
    IF ~project.opens
    THEN << "Warning: Could not open Digital Logic Sim file: " \o jsonPath >>
    ELSE UpdateSubchip(project.alpha, "Machine Code ALPHA")
         \o UpdateSubchip(project.beta, "Machine Code BETA")
         \o (IF project.writable THEN <<>>
             ELSE << "Error: Could not write to Digital Logic Sim file" >>)

(* RomWriter::writeToFile: what it writes to std::cerr *)
writeToFile(filename, writable) ==
    IF writable THEN <<>> ELSE << "Error: Cannot write to '" \o filename \o "'" >>

(* the two output files that execute() creates *)
WrittenFiles ==
    IF outputBase = "" THEN {}
    ELSE { f \in {"ALPHA", "BETA"} : fileSystem.writable[run][f] }

(* the output files that call r creates *)
WrittenIn(r) ==
    IF ~fileSystem.opens[r] \/ console[r].outputBase = "" THEN {}
    ELSE { f \in {"ALPHA", "BETA"} : fileSystem.writable[r][f] }

(* what the end of execute() writes to std::cerr, in order *)
EmitLog ==
    (IF outputBase = "" THEN <<>>
     ELSE writeToFile(outputBase \o "_ALPHA.out", fileSystem.writable[run].ALPHA)
          \o writeToFile(outputBase \o "_BETA.out", fileSystem.writable[run].BETA))
    \o updateMultipleSubchips(fileSystem.project[run])

(* a machine without the simulator project: the chip file does not open *)
NoProject == [opens |-> FALSE, alpha |-> "found", beta |-> "found", writable |-> TRUE]

(* What each call finds on the disk at the time it opens its files, the    *)
(* files and directories that earlier calls and other programs created     *)
(* included.  On the plain disk every input file opens and ends in a       *)
(* newline and every call can write both of its output files.              *)
PlainFileSystem(fs) ==
    [opens        |-> [r \in 1..Len(fs) |-> TRUE],
     finalNewline |-> [r \in 1..Len(fs) |-> TRUE],
     writable     |-> [r \in 1..Len(fs) |-> [ALPHA |-> TRUE, BETA |-> TRUE]],
     project      |-> [r \in 1..Len(fs) |-> NoProject]]

(* the answers to the prompts of the calls to come: a file name of its own *)
(* for each call and the output base names given                          *)
Answers(bases) ==
    [r \in 1..Len(bases) |->
        [inputFile |-> "in" \o ToDecimal(r) \o ".s", outputBase |-> bases[r]]]

(***************************************************************************)
(* The state after construction, given the files of the calls to come,     *)
(* the output base name typed for each call, and the disk.                 *)
(***************************************************************************)
ConstructedIn(fs, bases, disk) ==
    /\ console = Answers(bases)
    /\ inputFile = ""
    /\ outputBase = ""
    /\ fileSystem = disk
    /\ files = fs
    /\ run = 0
    /\ phase = "idle"
    /\ lineNo = 0
    /\ inMultiline = FALSE
    /\ lineText = ""
    /\ pc = 0
    /\ symbolTable = <<>>
    /\ aliasTable = <<>>
    /\ instructions = <<>>
    /\ alphaData = <<>>
    /\ betaData = <<>>
    /\ errlog = <<>>
    /\ outputs = <<>>
    /\ results = <<>>
    /\ labelLine = <<>>
    /\ wordLine = <<>>
    /\ pass1Read = 0
    /\ pass2Read = 0

(* the state after construction on a plain disk, the same output base name *)
(* typed for every call                                                   *)
Constructed(fs) ==
    ConstructedIn(fs, [r \in 1..Len(fs) |-> "out"], PlainFileSystem(fs))

(* getInputs(): runTool() reads the two answers before every execute() *)
GetInputs ==
    /\ phase \in {"idle", "done"}
    /\ run < Len(console)
    /\ inputFile' = console[run + 1].inputFile
    /\ outputBase' = console[run + 1].outputBase
    /\ phase' = "ready"
    /\ UNCHANGED <<console, fileSystem, files, run, lineNo, inMultiline, lineText, pc,
                   symbolTable, aliasTable, instructions, alphaData, betaData, errlog,
                   outputs, results, labelLine, wordLine, pass1Read, pass2Read>>

(* execute() when inputFile does not open: one line on std::cerr, then return *)
OpenFailed ==
    /\ phase' = "done"
    /\ errlog' = Append(errlog,
                        Notice(run + 1, "Error: Could not open file '"
                                        \o inputFile \o "'"))
    /\ UNCHANGED <<console, inputFile, outputBase, fileSystem, files, lineNo, inMultiline, lineText, pc,
                   symbolTable, aliasTable, instructions, alphaData, betaData, outputs,
                   results, labelLine, wordLine, pass1Read, pass2Read>>

(* execute() that leaves the label and alias tables of the last call in place *)
Begin_tablesKept ==
    /\ phase = "ready"
    /\ run < Len(files)
    /\ run' = run + 1
    /\ IF ~fileSystem.opens[run + 1]
       THEN OpenFailed
       ELSE /\ phase' = "pass1"
            /\ inMultiline' = FALSE
            /\ lineText' = ""
            /\ pc' = 0
            /\ lineNo' = 0
            /\ instructions' = <<>>
            /\ alphaData' = <<>>
            /\ betaData' = <<>>
            /\ labelLine' = <<>>
            /\ wordLine' = <<>>
            /\ pass1Read' = 0
            /\ pass2Read' = 0
            /\ UNCHANGED <<console, inputFile, outputBase, fileSystem, files, errlog, outputs, results,
                           symbolTable, aliasTable>>

(* execute() up to the Pass 1 loop: the file is opened; when it opens, the *)
(* tables are cleared                                                      *)
Begin ==
    /\ phase = "ready"
    /\ run < Len(files)
    /\ run' = run + 1
    /\ IF ~fileSystem.opens[run + 1]
       THEN OpenFailed
       ELSE /\ phase' = "pass1"
            /\ symbolTable' = <<>>
            /\ aliasTable' = <<>>
            /\ inMultiline' = FALSE
            /\ lineText' = ""
            /\ pc' = 0
            /\ lineNo' = 0
            /\ instructions' = <<>>
            /\ alphaData' = <<>>
            /\ betaData' = <<>>
            /\ labelLine' = <<>>
            /\ wordLine' = <<>>
            /\ pass1Read' = 0
            /\ pass2Read' = 0
            /\ UNCHANGED <<console, inputFile, outputBase, fileSystem, files, errlog, outputs, results>>

(* the Pass 1 loop body with a label recorded one past the counter *)
Pass1Body_addressAhead(trimmed, alias) ==
    IF trimmed = ""
    THEN UNCHANGED <<pc, symbolTable, aliasTable, errlog, labelLine>>
    ELSE IF IsAliasLine(trimmed)
    THEN /\ aliasTable' = alias.table
         /\ errlog' = IF alias.error = "" THEN errlog
                      ELSE Append(errlog, Diagnostic(1, lineNo + 1, alias.error, alias.text))
         /\ UNCHANGED <<pc, symbolTable, labelLine>>
    ELSE IF isLabel(trimmed)
    THEN /\ symbolTable' = Append(symbolTable, [name |-> parseLabel(trimmed),
                                                address |-> U8(pc + 1)])
         /\ labelLine' = Append(labelLine, lineNo + 1)
         /\ UNCHANGED <<pc, aliasTable, errlog>>
    ELSE /\ pc' = pc + 1
         /\ UNCHANGED <<symbolTable, aliasTable, errlog, labelLine>>

(* the body of the Pass 1 loop, for the stripped line and its trimmed text *)
Pass1Body(trimmed, alias) ==
    IF trimmed = ""
    THEN UNCHANGED <<pc, symbolTable, aliasTable, errlog, labelLine>>
    ELSE IF IsAliasLine(trimmed)
    THEN /\ aliasTable' = alias.table
         /\ errlog' = IF alias.error = "" THEN errlog
                      ELSE Append(errlog, Diagnostic(1, lineNo + 1, alias.error, alias.text))
         /\ UNCHANGED <<pc, symbolTable, labelLine>>
    ELSE IF isLabel(trimmed)
    THEN /\ symbolTable' = Append(symbolTable, [name |-> parseLabel(trimmed),
                                                address |-> U8(pc)])
         /\ labelLine' = Append(labelLine, lineNo + 1)
         /\ UNCHANGED <<pc, aliasTable, errlog>>
    ELSE /\ pc' = pc + 1
         /\ UNCHANGED <<symbolTable, aliasTable, errlog, labelLine>>

Pass1Stripped(stripped) ==
    /\ inMultiline' = stripped.inMultiline
    /\ lineText' = stripped.line
    /\ Pass1Body(TrimLeft(stripped.line), AliasDirective(aliasTable, TrimLeft(stripped.line)))

(* one iteration of the Pass 1 loop *)
Pass1Line ==
    /\ phase = "pass1"
    /\ lineNo < Len(files[run])
    /\ pc < MAX_INSTR
    /\ lineNo' = lineNo + 1
    /\ pass1Read' = pass1Read + 1
    /\ Pass1Stripped(stripComments(files[run][lineNo + 1], inMultiline))
    /\ UNCHANGED <<console, inputFile, outputBase, fileSystem, files, run, phase, instructions, alphaData, betaData, outputs, results,
                   wordLine, pass2Read>>

(* `line` after the getline call that ends a loop: the next line when one  *)
(* is left; emptied at the end of a file whose last line ends in a newline;*)
(* left as it was when the stream was already at its end                   *)
LastGetline ==
    IF lineNo < Len(files[run]) THEN files[run][lineNo + 1]
    ELSE IF fileSystem.finalNewline[run] THEN ""
    ELSE lineText

(* the Pass 1 loop ends (no line left, or pc at 256); the stream is rewound *)
Pass1End ==
    /\ phase = "pass1"
    /\ ~(lineNo < Len(files[run]) /\ pc < MAX_INSTR)
    /\ phase' = "pass2"
    /\ lineNo' = 0
    /\ inMultiline' = FALSE
    /\ lineText' = LastGetline
    /\ instructions' = <<>>
    /\ UNCHANGED <<console, inputFile, outputBase, fileSystem, files, run, pc, symbolTable, aliasTable, alphaData, betaData,
                   errlog, outputs, results, labelLine, wordLine, pass1Read, pass2Read>>

(* the Pass 2 loop body without the `continue` after the warning *)
Pass2Body_noContinue(line, trimmed, parsed) ==
    /\ errlog' = IF parsed.error
                 THEN Append(errlog, Diagnostic(2, lineNo + 1,
                                                "Warning: Failed to parse line", line))
                 ELSE errlog
    /\ IF trimmed # "" /\ ~isLabel(trimmed) /\ Ch(trimmed, 1) # "#"
       THEN /\ instructions' = Append(instructions, parsed.instr)
            /\ wordLine' = Append(wordLine, lineNo + 1)
       ELSE UNCHANGED <<instructions, wordLine>>

(* the body of the Pass 2 loop, for the stripped line and what parseInstruction gave *)
Pass2Body(line, trimmed, parsed) ==
    IF parsed.error
    THEN /\ errlog' = Append(errlog, Diagnostic(2, lineNo + 1,
                                                "Warning: Failed to parse line", line))
         /\ UNCHANGED <<instructions, wordLine>>
    ELSE IF trimmed # "" /\ ~isLabel(trimmed) /\ Ch(trimmed, 1) # "#"
    THEN /\ instructions' = Append(instructions, parsed.instr)
         /\ wordLine' = Append(wordLine, lineNo + 1)
         /\ UNCHANGED errlog
    ELSE UNCHANGED <<instructions, wordLine, errlog>>

Pass2Stripped(stripped) ==
    /\ inMultiline' = stripped.inMultiline
    /\ lineText' = stripped.line
    /\ Pass2Body(stripped.line, TrimLeft(stripped.line),
                 parseInstruction(stripped.line, Len(instructions)))

(* one iteration of the Pass 2 loop *)
Pass2Line ==
    /\ phase = "pass2"
    /\ lineNo < Len(files[run])
    /\ Len(instructions) < MAX_INSTR
    /\ lineNo' = lineNo + 1
    /\ pass2Read' = pass2Read + 1
    /\ Pass2Stripped(stripComments(files[run][lineNo + 1], inMultiline))
    /\ UNCHANGED <<console, inputFile, outputBase, fileSystem, files, run, phase, pc, symbolTable, aliasTable, alphaData, betaData,
                   outputs, results, labelLine, pass1Read>>

(* the Pass 2 loop ends (no line left, or 256 words); the input is closed *)
Pass2End ==
    /\ phase = "pass2"
    /\ ~(lineNo < Len(files[run]) /\ Len(instructions) < MAX_INSTR)
    /\ phase' = "emit"
    /\ lineText' = LastGetline
    /\ lineNo' = IF lineNo < Len(files[run]) THEN lineNo + 1 ELSE lineNo
    /\ UNCHANGED <<console, inputFile, outputBase, fileSystem, files, run, inMultiline, pc, symbolTable, aliasTable,
                   instructions, alphaData, betaData, errlog, outputs, results, labelLine,
                   wordLine, pass1Read, pass2Read>>

(* the split with the two halves of each word exchanged between the banks *)
Emit_halvesExchanged ==
    /\ phase = "emit"
    /\ alphaData' = [i \in 1..MAX_INSTR |->
                        IF i <= Len(instructions) THEN instructions[i][2] ELSE 0]
    /\ betaData' = [i \in 1..MAX_INSTR |->
                        IF i <= Len(instructions) THEN instructions[i][1] ELSE 0]
    /\ outputs' = IF WrittenFiles = {} THEN outputs
                  ELSE Append(outputs, [f \in WrittenFiles |->
                                           IF f = "ALPHA" THEN alphaData' ELSE betaData'])
    /\ errlog' = errlog \o [k \in 1..Len(EmitLog) |-> Notice(run, EmitLog[k])]
    /\ results' = Append(results, [instructions |-> instructions,
                                   symbolTable |-> symbolTable,
                                   aliasTable |-> aliasTable,
                                   alphaData |-> alphaData',
                                   betaData |-> betaData'])
    /\ phase' = "done"
    /\ UNCHANGED <<console, inputFile, outputBase, fileSystem, files, run, lineNo, inMultiline, lineText,
                   pc, symbolTable, aliasTable, instructions, labelLine, wordLine,
                   pass1Read, pass2Read>>

(* the banks are filled from the Program, written through two RomWriters   *)
(* when the output base name is set, and handed to the simulator project   *)
Emit ==
    /\ phase = "emit"
    /\ alphaData' = [i \in 1..MAX_INSTR |->
                        IF i <= Len(instructions) THEN instructions[i][1] ELSE 0]
    /\ betaData' = [i \in 1..MAX_INSTR |->
                        IF i <= Len(instructions) THEN instructions[i][2] ELSE 0]
    /\ outputs' = IF WrittenFiles = {} THEN outputs
                  ELSE Append(outputs, [f \in WrittenFiles |->
                                           IF f = "ALPHA" THEN alphaData' ELSE betaData'])
    /\ errlog' = errlog \o [k \in 1..Len(EmitLog) |-> Notice(run, EmitLog[k])]
    /\ results' = Append(results, [instructions |-> instructions,
                                   symbolTable |-> symbolTable,
                                   aliasTable |-> aliasTable,
                                   alphaData |-> alphaData',
                                   betaData |-> betaData'])
    /\ phase' = "done"
    /\ UNCHANGED <<console, inputFile, outputBase, fileSystem, files, run, lineNo, inMultiline, lineText,
                   pc, symbolTable, aliasTable, instructions, labelLine, wordLine,
                   pass1Read, pass2Read>>

Next == GetInputs \/ Begin \/ Pass1Line \/ Pass1End \/ Pass2Line \/ Pass2End \/ Emit

(***************************************************************************)
(* Sources of the general specification: every file of at most MaxLines    *)
(* lines drawn from LineCorpus.                                            *)
(***************************************************************************)
MaxLines == 3

LineCorpus ==
    { "loop:", "ADD X0, X1, X2", "B loop", "FOO", "; c", "#x", "",
      "MOV X0, 70000", "MOV X0, 0x100000005", "MOV X0, X8", "B end", "B Xend",
      "sub x1, 5 /* c", "d */ EXIT // e" }

FilesOver(corpus, n) == UNION { [1..k -> corpus] : k \in 0..n }

Init == \E s \in FilesOver(LineCorpus, MaxLines) : Constructed(<<s>>)

Spec == Init /\ [][Next]_vars

(***************************************************************************)
(* Notions the properties are stated with                                  *)
(***************************************************************************)
(* lines a..b of a file after comment stripping, and the flag after them,  *)
(* given the flag before line a (halving keeps the evaluation shallow)     *)
RECURSIVE StrippedRange(_, _, _, _)
StrippedRange(file, a, b, inML) ==
    IF a > b THEN [lines |-> <<>>, inMultiline |-> inML]
    ELSE IF a = b
    THEN LET r == stripComments(file[a], inML)
         IN  [lines |-> <<r.line>>, inMultiline |-> r.inMultiline]
    ELSE LET mid == (a + b) \div 2
             left == StrippedRange(file, a, mid, inML)
             right == StrippedRange(file, mid + 1, b, left.inMultiline)
         IN  [lines |-> left.lines \o right.lines, inMultiline |-> right.inMultiline]

StrippedLines(file) == StrippedRange(file, 1, Len(file), FALSE).lines

(* the kind of a stripped and trimmed line *)
KindOf(trimmed) ==
    IF trimmed = "" THEN "Blank"
    ELSE IF isLabel(trimmed) THEN "Label"
    ELSE IF IsAliasLine(trimmed) THEN "Directive"
    ELSE IF Ch(trimmed, 1) \in {";", "#"} THEN "Comment"
    ELSE "Instruction"

(* the numbers of the Instruction-kind lines of a file *)
InstructionLines(file) ==
    LET stripped == StrippedLines(file)
    IN  { n \in 1..Len(file) : KindOf(TrimLeft(stripped[n])) = "Instruction" }

Finished == phase = "done" /\ fileSystem.opens[run]

(* the lines that the two passes wrote to std::cerr, in order *)
PassLog == SelectSeq(errlog, LAMBDA e : e.pass # 0)

(* line n of the current file got a Pass 2 diagnostic / a word of the Program *)
Diagnosed(n) ==
    \E k \in 1..Len(errlog) :
        errlog[k].run = run /\ errlog[k].pass = 2 /\ errlog[k].line = n

HasWord(n) == \E j \in 1..Len(wordLine) : wordLine[j] = n

WordIndex(n) == CHOOSE j \in 1..Len(wordLine) : wordLine[j] = n

Least(S) == CHOOSE x \in S : \A y \in S : x <= y

(***************************************************************************)
(* C1: for a source with at most 256 instruction-kind lines (lines that    *)
(* fail to encode included), the Pass 1 program counter at the end of      *)
(* Pass 1 equals the number of words of the Program at the end of Pass 2.  *)
(***************************************************************************)
C1_PcEqualsProgramLength ==
    (Finished /\ Cardinality(InstructionLines(files[run])) <= MAX_INSTR)
        => pc = Len(instructions)

(***************************************************************************)
(* C2: every label's address is the index, in the Program, of the word     *)
(* emitted for the first instruction line that follows the label,          *)
(* whatever lines precede the label.                                       *)
(***************************************************************************)
FollowingInstructions(n) == { m \in InstructionLines(files[run]) : m > n }

C2_LabelAddressIsWordIndex ==
    Finished =>
        \A i \in 1..Len(symbolTable) :
            (/\ FollowingInstructions(labelLine[i]) # {}
             /\ HasWord(Least(FollowingInstructions(labelLine[i]))))
                => symbolTable[i].address + 1
                       = WordIndex(Least(FollowingInstructions(labelLine[i])))

(***************************************************************************)
(* Sources of the label specification: MaxLead instruction lines at most,  *)
(* then a label and a branch to it (the branch before or after the label); *)
(* the same tool object then assembles the same source with the decimal    *)
(* address written in place of the label name.                             *)
(***************************************************************************)
MaxLead == 2

LabelNames == {"loop", "Xloop", "_top", ".L1"}

BranchMnemonics == { branch_conditions[i][1] : i \in 1..Len(branch_conditions) }

Lead(k) == [i \in 1..k |-> "ADD X0, X1, X2"]

(* the branch after the label (forward = FALSE) or before it (forward = TRUE) *)
BranchSource(k, name, branch, forward) ==
    IF forward THEN Lead(k) \o <<branch, name \o ":", "EXIT">>
    ELSE Lead(k) \o <<name \o ":", branch, "EXIT">>

(* the number of instruction lines before the label *)
LabelPosition(k, forward) == IF forward THEN k + 1 ELSE k

InitLabels ==
    \E k \in 0..MaxLead, name \in LabelNames, mn \in BranchMnemonics, forward \in BOOLEAN :
        Constructed(<< BranchSource(k, name, mn \o " " \o name, forward),
                       BranchSource(k, name,
                                    mn \o " " \o ToDecimal(LabelPosition(k, forward)),
                                    forward) >>)

SpecLabels == InitLabels /\ [][Next]_vars

(***************************************************************************)
(* C3: label round-trip.  For every branch mnemonic and every label name   *)
(* the classifier accepts, the branch written with the name of a label     *)
(* defined after k instruction lines encodes to the same word as the same  *)
(* branch written with the decimal literal k: the banks written for the    *)
(* two sources are the same.                                               *)
(***************************************************************************)
C3_LabelRoundTrip ==
    (Finished /\ run = 2) => outputs[1] = outputs[2]

(***************************************************************************)
(* Sources of the alias specification: files of at most MaxAliasLines      *)
(* lines of valid #ALIAS directives and of instructions that use the       *)
(* aliases; the same tool object then assembles the expanded source, in    *)
(* which every operand token that is an alias is replaced by the register  *)
(* name the alias table holds for it at the end of Pass 1.                 *)
(***************************************************************************)
MaxAliasLines == 3

AliasCorpus ==
    { "#ALIAS X1 foo", "#ALIAS X2 foo", "#ALIAS x5 bar_1", "#ALIAS X2 X1",
      "MOV foo, 5", "ADD bar_1, foo, X1", "B foo", "PRINT 7, bar_1" }

(* the alias table Pass 1 builds from the lines n.. of a file *)
RECURSIVE AliasesFrom(_, _, _)
AliasesFrom(lines, n, table) ==
    IF n > Len(lines) THEN table
    ELSE AliasesFrom(lines, n + 1,
                     IF IsAliasLine(TrimLeft(lines[n]))
                     THEN AliasDirective(table, TrimLeft(lines[n])).table
                     ELSE table)

FinalAliases(file) == AliasesFrom(StrippedLines(file), 1, <<>>)

(* the token, or the register name the table maps it to *)
Substitute(token, table) ==
    LET Hit(a) == a.alias = token
        i == FirstIndex(table, Hit)
    IN  IF i = 0 THEN token ELSE table[i].registerName

RECURSIVE JoinTokens(_)
JoinTokens(tokens) ==
    IF tokens = <<>> THEN ""
    ELSE IF Len(tokens) = 1 THEN tokens[1]
    ELSE tokens[1] \o ", " \o JoinTokens(Tail(tokens))

ExpandOperands(operands, table) ==
    JoinTokens([i \in 1..Len(tokenize(operands)) |-> Substitute(tokenize(operands)[i], table)])

(* an instruction line with its operand tokens substituted; any other line unchanged *)
ExpandLine(line, table) ==
    IF KindOf(TrimLeft(line)) # "Instruction" \/ FindFirstBlank(TrimLeft(line)) = 0 THEN line
    ELSE SubSeq(TrimLeft(line), 1, FindFirstBlank(TrimLeft(line)))
         \o ExpandOperands(Substr(TrimLeft(line), FindFirstBlank(TrimLeft(line)) + 1), table)

Expand(file) == [n \in 1..Len(file) |-> ExpandLine(file[n], FinalAliases(file))]

InitAlias ==
    \E s \in FilesOver(AliasCorpus, MaxAliasLines) : Constructed(<<s, Expand(s)>>)

SpecAlias == InitAlias /\ [][Next]_vars

(***************************************************************************)
(* C4: alias transparency.  For a source with valid #ALIAS directives,     *)
(* replacing every use of an alias by the register name it is mapped to    *)
(* gives the same Program and the same ALPHA and BETA banks.               *)
(***************************************************************************)
C4_AliasTransparency ==
    (Finished /\ run = 2) => outputs[1] = outputs[2]

(***************************************************************************)
(* Sources of the encoding specification: one line `OP Xd, Xa, Xb`, for    *)
(* every ALU mnemonic and all registers d, a, b.                           *)
(***************************************************************************)
RegisterToken(r) == "X" \o ToDecimal(r)

AluLine(mn, d, a, b) ==
    mn \o " " \o RegisterToken(d) \o ", " \o RegisterToken(a) \o ", " \o RegisterToken(b)

AluMnemonicSet == { AluMnemonics[i] : i \in 1..Len(AluMnemonics) }

InitEncode ==
    \E mn \in AluMnemonicSet, d \in 0..(NumRegs - 1), a \in 0..(NumRegs - 1),
       b \in 0..(NumRegs - 1) :
        Constructed(<< <<AluLine(mn, d, a, b)>> >>)

SpecEncode == InitEncode /\ [][Next]_vars

(* the register-format opcode of an ALU mnemonic: its position in the ALU table *)
AluRegisterOpcode(mn) == (CHOOSE i \in 1..Len(AluMnemonics) : AluMnemonics[i] = mn) - 1

(* the mnemonic and the register digits of the line `OP Xd, Xa, Xb` of the file *)
LineMnemonic(line) == SubSeq(line, 1, FindFirstBlank(line) - 1)

LineRegister(line, k) == DigitVal(Ch(tokenize(Substr(line, FindFirstBlank(line)))[k], 2), 10)

(***************************************************************************)
(* C5: bit-layout exactness.  For every ALU mnemonic and all registers     *)
(* d, a, b in 0..7 the line `OP Xd, Xa, Xb` encodes to the one word        *)
(* opcode | d<<8 | a<<12 | b<<16: the low half is opcode + 256 d + 4096 a, *)
(* the high half is b, every other bit is zero, no diagnostic is written.  *)
(***************************************************************************)
C5_AluBitLayout ==
    Finished =>
        /\ PassLog = <<>>
        /\ instructions =
               << << LineRegister(files[run][1], 3),
                     AluRegisterOpcode(LineMnemonic(files[run][1]))
                         + 256 * LineRegister(files[run][1], 1)
                         + 4096 * LineRegister(files[run][1], 2) >> >>

(* the case of the spec: ADD X0, X1, X2 assembled to 0x00021004 *)
C5_Witness ==
    /\ Finished
    /\ files[run] = <<"ADD X0, X1, X2">>
    /\ instructions = << <<2, 4100>> >>

(***************************************************************************)
(* The rejection properties are stated over the lines of the current file  *)
(* whose stripped and trimmed text is a given one.                         *)
(***************************************************************************)
LinesReading(texts) ==
    LET stripped == StrippedLines(files[run])
    IN  { n \in 1..Len(files[run]) : TrimLeft(stripped[n]) \in texts }

Rejected(n) == Diagnosed(n) /\ ~HasWord(n)

InPass2 == phase \in {"pass2", "emit", "done"}

(* instructions whose immediate operand is a numeric literal above 65535 *)
OverRangeImmediates == { "MOV X0, 70000", "MOV X0, 0x100000005" }

(***************************************************************************)
(* C6: immediate range rejection.  An instruction whose immediate operand  *)
(* is a numeric literal greater than 65535 gets the error flag (a Pass 2   *)
(* diagnostic) and no word, and the lines after it are still assembled:    *)
(* Pass 2 reads every line of the file.                                    *)
(***************************************************************************)
C6_ImmediateRangeRejected ==
    Finished =>
        /\ \A n \in LinesReading(OverRangeImmediates) : Rejected(n)
        /\ pass2Read = Len(files[run])

(* the names defined as labels in the source *)
DefinedLabels == { symbolTable[i].name : i \in 1..Len(symbolTable) }

(* the lines `B <identifier>` of the current file whose identifier is no label *)
UnresolvedBranches ==
    LinesReading({ "B " \o id : id \in {"loop", "end", "Xend"} \ DefinedLabels })

StrictlyIncreasing(seq) == \A i, j \in 1..Len(seq) : i < j => seq[i] < seq[j]

(***************************************************************************)
(* C7: unresolved label.  A branch whose target is an identifier defined   *)
(* as a label nowhere in the source is rejected for that line (diagnostic, *)
(* no word); the other lines are still read and their words stand in the   *)
(* Program in source order.                                                *)
(***************************************************************************)
C7_UnresolvedLabelRejected ==
    Finished =>
        /\ \A n \in UnresolvedBranches : Rejected(n)
        /\ pass2Read = Len(files[run])
        /\ StrictlyIncreasing(wordLine)

(* instructions with a register operand token X<n>, n outside 0..7 *)
OutOfRangeRegisters == { "MOV X0, X8" }

(***************************************************************************)
(* C8: register range.  A register operand token X<n> with n outside 0..7  *)
(* makes the line a per-line failure: a diagnostic and no word, never a    *)
(* word with another register or an immediate in the operand's place.      *)
(***************************************************************************)
C8_RegisterRangeRejected ==
    InPass2 => \A n \in LinesReading(OutOfRangeRegisters) : n <= pass2Read => Rejected(n)

(* the Pass 2 diagnostics naming line n of the current file *)
DiagnosticsOf(n) ==
    { k \in 1..Len(errlog) :
        errlog[k].run = run /\ errlog[k].pass = 2 /\ errlog[k].line = n }

(***************************************************************************)
(* C9: in Pass 2 every instruction-kind line that was read has produced    *)
(* exactly one of: one word appended to the Program, or one diagnostic     *)
(* that names the line (and no word); never both, never neither.  A line   *)
(* not read yet has produced nothing.  Every word of the Program comes     *)
(* from one line, and the words stand in the source order of their lines.  *)
(***************************************************************************)
C9_OneOutcomePerLine ==
    InPass2 =>
        LET stripped == StrippedLines(files[run])
        IN  /\ \A n \in 1..Len(stripped) :
                  KindOf(TrimLeft(stripped[n])) = "Instruction" =>
                      IF n <= pass2Read
                      THEN \/ /\ Cardinality({ j \in 1..Len(wordLine) : wordLine[j] = n }) = 1
                              /\ DiagnosticsOf(n) = {}
                           \/ /\ ~HasWord(n)
                              /\ Cardinality(DiagnosticsOf(n)) = 1
                              /\ \A k \in DiagnosticsOf(n) : errlog[k].text = stripped[n]
                      ELSE ~HasWord(n) /\ DiagnosticsOf(n) = {}
            /\ Len(wordLine) = Len(instructions)
            /\ StrictlyIncreasing(wordLine)

(* a finished run in which one line was rejected and the next one encoded *)
C9_Witness ==
    /\ Finished
    /\ files[run] = <<"FOO", "ADD X0, X1, X2", "MOV X0, 70000">>
    /\ instructions = << <<2, 4100>> >>
    /\ wordLine = <<2>>
    /\ DiagnosticsOf(1) = {1}
    /\ DiagnosticsOf(3) = {2}

(***************************************************************************)
(* Sources of the capacity specification: 256 distinct encodable lines     *)
(* and up to MaxExtra more, after nothing, after a line that fails to      *)
(* encode, or after a full-line comment.                                   *)
(***************************************************************************)
MaxExtra == 2

EncodableLine(i) == "MOV X" \o ToDecimal(i % NumRegs) \o ", " \o ToDecimal(i)

CapacityPrefixes == { <<>>, <<"FOO">>, <<"; c">> }

InitCapacity ==
    \E prefix \in CapacityPrefixes, extra \in 0..MaxExtra :
        Constructed(<< prefix \o [i \in 1..(MAX_INSTR + extra) |-> EncodableLine(i)] >>)

SpecCapacity == InitCapacity /\ [][Next]_vars

(* the instruction-kind lines of the stripped file that encode without error *)
EncodableLines(stripped) ==
    { n \in 1..Len(stripped) :
        /\ KindOf(TrimLeft(stripped[n])) = "Instruction"
        /\ ~parseInstruction(stripped[n], 0).error }

(* the first `count` members of a set of line numbers *)
FirstOf(S, count) == { n \in S : Cardinality({ m \in S : m <= n }) <= count }

(***************************************************************************)
(* C10: capacity.  In every state the Pass 1 program counter and the       *)
(* length of the Program are at most 256.  A source with more than 256     *)
(* encodable instruction lines yields a Program of exactly 256 words,      *)
(* which are the words of the first 256 such lines in source order, and    *)
(* the lines in excess produce neither a word nor a diagnostic.            *)
(***************************************************************************)
C10_Capacity ==
    /\ pc <= MAX_INSTR
    /\ Len(instructions) <= MAX_INSTR
    /\ Finished =>
           LET stripped == StrippedLines(files[run])
               encodable == EncodableLines(stripped)
               first == FirstOf(encodable, MAX_INSTR)
           IN  Cardinality(encodable) > MAX_INSTR =>
                   /\ Len(instructions) = MAX_INSTR
                   /\ { wordLine[j] : j \in 1..Len(wordLine) } = first
                   /\ StrictlyIncreasing(wordLine)
                   /\ \A n \in encodable \ first : ~HasWord(n) /\ DiagnosticsOf(n) = {}

(***************************************************************************)
(* Sources of the emission specification: one call on a short source, for  *)
(* an output base name that is set or empty, output files that can or      *)
(* cannot be written, a source with or without a final newline, and a      *)
(* simulator project that is absent, or present with each subchip found,   *)
(* missing or without data, writable or not.                               *)
(***************************************************************************)
EmitSources ==
    { <<>>,
      <<"MOV X0, 5", "FOO">>,
      <<"ADD X0, X1, X2", "sub x1, 5 /* c", "d */ EXIT // e">> }

OutputBases == {"", "out"}

SubchipStates == {"found", "no label", "no data"}

Projects ==
    {NoProject}
    \cup { [opens |-> TRUE, alpha |-> a, beta |-> b, writable |-> w] :
               a \in SubchipStates, b \in SubchipStates, w \in BOOLEAN }

InitEmit ==
    \E s \in EmitSources, base \in OutputBases, project \in Projects,
       alphaWritable \in BOOLEAN, betaWritable \in BOOLEAN, newline \in BOOLEAN :
        ConstructedIn(<<s>>, <<base>>,
                      [PlainFileSystem(<<s>>) EXCEPT
                          !.finalNewline = <<newline>>,
                          !.writable = << [ALPHA |-> alphaWritable,
                                           BETA |-> betaWritable] >>,
                          !.project = <<project>>])

SpecEmit == InitEmit /\ [][Next]_vars

(***************************************************************************)
(* C11: split-bank invariant.  After emission both banks have exactly 256  *)
(* entries; at every address below the Program length ALPHA holds the high *)
(* 16 bits of the word and BETA the low 16 bits; at every address at or    *)
(* above the Program length both hold 0.  The output files written, if     *)
(* any, hold these banks.                                                  *)
(***************************************************************************)
C11_SplitBanks ==
    Finished =>
        /\ Len(alphaData) = 256
        /\ Len(betaData) = 256
        /\ \A i \in 1..256 :
              IF i <= Len(instructions)
              THEN alphaData[i] = instructions[i][1] /\ betaData[i] = instructions[i][2]
              ELSE alphaData[i] = 0 /\ betaData[i] = 0
        /\ IF WrittenFiles = {} THEN outputs = <<>>
           ELSE /\ Len(outputs) = 1
                /\ DOMAIN outputs[1] = WrittenFiles
                /\ "ALPHA" \in WrittenFiles => outputs[1].ALPHA = alphaData
                /\ "BETA" \in WrittenFiles => outputs[1].BETA = betaData

(* ADD X0, X1, X2 (0x00021004) at address 0 and EXIT (0xFFFFFFFF) at address 2 *)
C11_Witness ==
    /\ Finished
    /\ WrittenFiles = {"ALPHA", "BETA"}
    /\ Len(outputs) = 1
    /\ files[run] = <<"ADD X0, X1, X2", "sub x1, 5 /* c", "d */ EXIT // e">>
    /\ alphaData[1] = 2 /\ betaData[1] = 4100
    /\ alphaData[3] = 65535 /\ betaData[3] = 65535
    /\ alphaData[4] = 0 /\ betaData[4] = 0
    /\ alphaData[256] = 0 /\ betaData[256] = 0

(***************************************************************************)
(* The comment stripper on its own: it is applied to a line under either   *)
(* value of the carried flag, and then once more to its own output, the    *)
(* flag of the second application being either value as well.              *)
(***************************************************************************)
MaxStripLen == 5

StripChars == {"/", "*", "a"}

RECURSIVE TextsUpTo(_, _)
TextsUpTo(chars, n) ==
    IF n = 0 THEN {""}
    ELSE TextsUpTo(chars, n - 1)
         \cup { t \o c : t \in { u \in TextsUpTo(chars, n - 1) : Len(u) = n - 1 }, c \in chars }

InitStrip ==
    \E text \in TextsUpTo(StripChars, MaxStripLen), flag \in BOOLEAN :
        /\ console = Answers(<<"out">>)
        /\ inputFile = "in1.s"
        /\ outputBase = "out"
        /\ fileSystem = PlainFileSystem(<< <<text>> >>)
        /\ files = << <<text>> >>
        /\ run = 1
        /\ phase = "strip"
        /\ lineNo = 0
        /\ inMultiline = flag
        /\ lineText = text
        /\ pc = 0
        /\ symbolTable = <<>>
        /\ aliasTable = <<>>
        /\ instructions = <<>>
        /\ alphaData = <<>>
        /\ betaData = <<>>
        /\ errlog = <<>>
        /\ outputs = <<>>
        /\ results = <<>>
        /\ labelLine = <<>>
        /\ wordLine = <<>>
        /\ pass1Read = 0
        /\ pass2Read = 0

StripResult(stripped, nextPhase) ==
    /\ lineText' = stripped.line
    /\ inMultiline' = stripped.inMultiline
    /\ phase' = nextPhase
    /\ UNCHANGED <<console, inputFile, outputBase, fileSystem, files, run, lineNo, pc, symbolTable, aliasTable, instructions, alphaData,
                   betaData, errlog, outputs, results, labelLine, wordLine, pass1Read, pass2Read>>

(* stripComments(line, inMultiline) on the line as read *)
StripFirst ==
    /\ phase = "strip"
    /\ StripResult(stripComments(lineText, inMultiline), "stripped")

(* stripComments on the output, the flag being cleared or set *)
StripAgain ==
    /\ phase = "stripped"
    /\ \E flag \in BOOLEAN :
          StripResult(stripComments(lineText, flag),
                      IF flag THEN "again inside" ELSE "again outside")

NextStrip == StripFirst \/ StripAgain

SpecStrip == InitStrip /\ [][NextStrip]_vars

(***************************************************************************)
(* C12 as stated: for every line and every value of the carried flag,      *)
(* applying the comment stripper to the output of the comment stripper     *)
(* returns that output unchanged.                                          *)
(***************************************************************************)
C12_StripIdempotent == [][phase = "stripped" => lineText' = lineText]_vars

(***************************************************************************)
(* C12 amended: for every line and every value of the carried flag,        *)
(* applying the comment stripper with the flag cleared to the output of    *)
(* the comment stripper returns that output unchanged and leaves the flag  *)
(* cleared.                                                                *)
(***************************************************************************)
C12_StripIdempotentOutside ==
    [][(phase = "stripped" /\ phase' = "again outside")
           => (lineText' = lineText /\ inMultiline' = FALSE)]_vars

(* a line with a block comment, stripped and stripped again *)
C12_Witness ==
    /\ phase = "again outside"
    /\ files[1][1] = "a/**/"
    /\ lineText = "a"
    /\ inMultiline = FALSE

(***************************************************************************)
(* Sources of the shorthand specification: the one line `OP Xd, s` and,    *)
(* as the second file, the one line `OP Xd, Xd, s`; s is a register or an  *)
(* immediate.                                                              *)
(***************************************************************************)
SecondOperands == { RegisterToken(r) : r \in 0..(NumRegs - 1) } \cup {"0", "9", "0x1F", "65535"}

ShorthandLine(mn, d, s) == mn \o " " \o RegisterToken(d) \o ", " \o s

ThreeOperandLine(mn, d, s) ==
    mn \o " " \o RegisterToken(d) \o ", " \o RegisterToken(d) \o ", " \o s

InitShorthand ==
    \E mn \in AluMnemonicSet, d \in 0..(NumRegs - 1), s \in SecondOperands :
        Constructed(<< <<ShorthandLine(mn, d, s)>>, <<ThreeOperandLine(mn, d, s)>> >>)

SpecShorthand == InitShorthand /\ [][Next]_vars

(***************************************************************************)
(* C13: ALU two-operand shorthand.  For every ALU mnemonic OP, register Xd *)
(* and second operand s (register or immediate), `OP Xd, s` assembles to   *)
(* the same Program and banks as `OP Xd, Xd, s`: the destination register  *)
(* is also the first source.                                               *)
(***************************************************************************)
C13_ShorthandIsThreeOperand ==
    (Finished /\ run = 2) =>
        /\ Len(instructions) = 1
        /\ outputs[1] = outputs[2]

(***************************************************************************)
(* Sources of the LR specification: up to MaxLRLead lines of several kinds *)
(* (encodable, failing, label, full-line comment), then `LR Xd`, then      *)
(* `MOV Xd, k` for some k.                                                 *)
(***************************************************************************)
MaxLRLead == 3

LRLeadCorpus == { "ADD X0, X1, X2", "FOO", "top:", "; c" }

LRSource(lead, d, k) ==
    lead \o << "LR " \o RegisterToken(d), "MOV " \o RegisterToken(d) \o ", " \o ToDecimal(k) >>

InitLR ==
    \E lead \in FilesOver(LRLeadCorpus, MaxLRLead), d \in 0..(NumRegs - 1),
       k \in 0..MaxLRLead :
        Constructed(<< LRSource(lead, d, k) >>)

SpecLR == InitLR /\ [][Next]_vars

(* the line numbers of the LR line and of the MOV line of the current file *)
LRLineNo == Len(files[run]) - 1

MovLineNo == Len(files[run])

(***************************************************************************)
(* C14: LR pseudo-instruction.  For every register Xd and every position   *)
(* in the source, the word of `LR Xd` stands in the Program at the 0-based *)
(* index k the Program had when the line was encoded, and it is the word   *)
(* of `MOV Xd, k`: opcode 0x41, destination d, immediate k.                *)
(***************************************************************************)
C14_LRIsMovOfIndex ==
    Finished =>
        /\ HasWord(LRLineNo)
        /\ HasWord(MovLineNo)
        /\ instructions[WordIndex(LRLineNo)] =
               << WordIndex(LRLineNo) - 1, 65 + 256 * LineRegister(files[run][LRLineNo], 1) >>
        /\ files[run][MovLineNo] =
               "MOV " \o RegisterToken(LineRegister(files[run][LRLineNo], 1)) \o ", "
                      \o ToDecimal(WordIndex(LRLineNo) - 1)
             => instructions[WordIndex(MovLineNo)] = instructions[WordIndex(LRLineNo)]

(* LR X7 after a rejected line and one word: index 1, the word of MOV X7, 1 *)
C14_Witness ==
    /\ Finished
    /\ files[run] = <<"FOO", "ADD X0, X1, X2", "LR X7", "MOV X7, 1">>
    /\ instructions = << <<2, 4100>>, <<1, 1857>>, <<1, 1857>> >>

(***************************************************************************)
(* Sources of the NOT specification: the line `NOT Xd`, the mnemonic in    *)
(* any letter case, alone or after another instruction.                    *)
(***************************************************************************)
NotSpellings == {"NOT", "not", "Not"}

NotLeads == { <<>>, <<"ADD X0, X1, X2">>, <<"top:">> }

InitNot ==
    \E mn \in NotSpellings, d \in 0..(NumRegs - 1), lead \in NotLeads :
        Constructed(<< lead \o << mn \o " " \o RegisterToken(d) >> >>)

SpecNot == InitNot /\ [][Next]_vars

(***************************************************************************)
(* C15: single-operand NOT.  For every register Xd in X0..X7 the line      *)
(* `NOT Xd` assembles without error to the ALU_NOT register-format word    *)
(* with destination field d: a word is appended for the line, no           *)
(* diagnostic is written, the opcode byte is 0x03 and bits 8-10 hold d.    *)
(***************************************************************************)
C15_NotSingleOperand ==
    Finished =>
        /\ ~Diagnosed(Len(files[run]))
        /\ HasWord(Len(files[run]))
        /\ instructions[Len(instructions)][2] % 256 = 3
        /\ (instructions[Len(instructions)][2] \div 256) % 8 =
               LineRegister(files[run][Len(files[run])], 1)

(***************************************************************************)
(* Sources of the opcode specification: up to MaxOpcodeLines lines over a  *)
(* corpus with every instruction family in its register and its immediate *)
(* shape, a label, a failing line and a full-line comment.                 *)
(***************************************************************************)
MaxOpcodeLines == 2

OpcodeCorpus ==
    { "ADD X0, X1, X2", "ADD X0, X1, 7", "XOR X3, 2", "NUL0F X1, X2, X3",
      "MOV X1, X2", "MOV X1, 300", "CMP X1, X2", "CMP X1, 4",
      "BEQ X3", "BNE 12", "B top", "top:",
      "READ X1, X2", "READ X1, 9", "WRITE X1, X2", "WRITE X1, 9",
      "PRINT X1, X2", "PRINT 3, X2", "PRINT X1, 'a'", "PRINT 3, 65",
      "EXIT", "LR X2", "FOO", "; c" }

InitOpcode == \E s \in FilesOver(OpcodeCorpus, MaxOpcodeLines) : Constructed(<<s>>)

SpecOpcode == InitOpcode /\ [][Next]_vars

RegisterTokens == { RegisterToken(r) : r \in 0..(NumRegs - 1) }

(* the opcode of the catalogue entry with this mnemonic, type and format *)
CatalogueOpcode(mn, type, immediate) ==
    LET entries == { i \in 1..Len(instructions_tech) :
                        /\ instructions_tech[i].mnemonic = mn
                        /\ instructions_tech[i].type = type
                        /\ instructions_tech[i].IMMEDIATE = immediate }
    IN  IF entries = {} THEN -1 ELSE instructions_tech[CHOOSE i \in entries : TRUE].opcode

(* the catalogue opcode for a line's mnemonic and operand shape, -1 when   *)
(* the catalogue has no entry for the line                                 *)
ExpectedOpcode(text) ==
    LET t == tokenize(text)
        mn == ToUpper(t[1])
        immediate == t[Len(t)] \notin RegisterTokens
    IN  IF mn \in AluMnemonicSet THEN CatalogueOpcode(mn, "TYPE_ALU", immediate)
        ELSE IF mn = "MOV" THEN CatalogueOpcode("MOV", "TYPE_MOVE", immediate)
        ELSE IF mn = "LR" THEN CatalogueOpcode("MOV", "TYPE_MOVE", TRUE)
        ELSE IF mn = "CMP" THEN CatalogueOpcode("CMP", "TYPE_CMP", immediate)
        ELSE IF mn \in BranchMnemonics THEN CatalogueOpcode("B", "TYPE_BRANCH", immediate)
        ELSE IF mn \in {"READ", "WRITE"} THEN CatalogueOpcode(mn, "TYPE_MEMORY", immediate)
        ELSE IF mn = "PRINT" /\ Len(t) = 3
        THEN CatalogueOpcode("PRINT",
                             IF t[3] \in RegisterTokens THEN "TYPE_PRINT_REG"
                                                        ELSE "TYPE_PRINT_CONST",
                             t[2] \notin RegisterTokens)
        ELSE IF mn = "EXIT" THEN CatalogueOpcode("EXIT", "TYPE_SERVICE", FALSE)
        ELSE -1

(***************************************************************************)
(* C16: every word appended to the Program has, in its lowest-order byte,  *)
(* the opcode of the catalogue entry selected for the mnemonic and the     *)
(* operand shape (register or immediate variant) of the line it was        *)
(* appended for.                                                           *)
(***************************************************************************)
C16_OpcodeInLowByte ==
    InPass2 =>
        LET stripped == StrippedLines(files[run])
        IN  \A j \in 1..Len(instructions) :
                instructions[j][2] % 256 = ExpectedOpcode(stripped[wordLine[j]])

(***************************************************************************)
(* Sources of the repeated-invocation specification: the same tool object  *)
(* executes S2, then S1, then S2 again.  The first call is S2 alone on the *)
(* fresh object, the third is S2 after S1.  The file of the second call    *)
(* opens or does not open, and the output base names typed for the three   *)
(* calls differ, one of them being empty; the third call can or cannot     *)
(* write its ALPHA file.                                                   *)
(***************************************************************************)
MaxTwiceLines == 2

(* whether the file of the second call opens, the three base names, and *)
(* whether the third call can write its ALPHA file                      *)
TwiceCalls ==
    { [opens |-> TRUE,  bases |-> <<"out", "", "rom">>, alphaWritable |-> TRUE],
      [opens |-> FALSE, bases |-> <<"", "rom", "out">>, alphaWritable |-> FALSE] }

TwiceCorpus == { "loop:", "B loop", "#ALIAS X1 foo", "MOV foo, 5" }

InitTwice ==
    \E s1 \in FilesOver(TwiceCorpus, MaxTwiceLines), s2 \in FilesOver(TwiceCorpus, MaxTwiceLines) :
        \E calls \in TwiceCalls :
            ConstructedIn(<<s2, s1, s2>>, calls.bases,
                          [PlainFileSystem(<<s2, s1, s2>>) EXCEPT
                              !.opens[2] = calls.opens,
                              !.writable[3].ALPHA = calls.alphaWritable])

SpecTwice == InitTwice /\ [][Next]_vars

(***************************************************************************)
(* C17: no state across invocations.  Executing S1 and then S2 with the    *)
(* same tool object gives for S2 exactly the Program, the label table and  *)
(* the alias table (and the banks) that executing S2 alone gives; no label *)
(* or alias of S1 is visible while S2 is assembled.  The same holds when   *)
(* the call in between returned because its file did not open, and for     *)
(* every output base name typed; the output files of the two calls, when   *)
(* both calls write them, hold the same banks.                             *)
(***************************************************************************)
C17_NoStateAcrossInvocations ==
    (Finished /\ run = 3) =>
        /\ results[Len(results)] = results[1]
        /\ (WrittenIn(1) # {} /\ WrittenIn(3) = WrittenIn(1)) =>
               outputs[Len(outputs)] = outputs[1]
        /\ results[Len(results)] = [instructions |-> instructions,
                                    symbolTable |-> symbolTable,
                                    aliasTable |-> aliasTable,
                                    alphaData |-> alphaData,
                                    betaData |-> betaData]

(* S1 defines the label and the alias that S2 uses without defining them *)
C17_Witness ==
    /\ Finished
    /\ run = 3
    /\ Len(results) = 3
    /\ console[2].outputBase = ""
    /\ outputBase = "rom"
    /\ Len(outputs) = 2
    /\ files[2] = <<"loop:", "#ALIAS X1 foo">>
    /\ files[3] = <<"B loop", "MOV foo, 5">>
    /\ results[2].symbolTable # <<>>
    /\ results[2].aliasTable # <<>>
    /\ instructions = <<>>
    /\ symbolTable = <<>>
    /\ aliasTable = <<>>

(***************************************************************************)
(* Sources of the letter-case specification: a source with upper-case      *)
(* mnemonics and, as the second file, the same source with the mnemonic of *)
(* every instruction line in lower case or in alternating case.            *)
(***************************************************************************)
MaxCaseLines == 2

CaseCorpus ==
    { "ADD X0, X1, X2", "XOR X3, 2", "MOV X1, 300", "CMP X1, 4", "BEQ X3", "B top",
      "top:", "READ X1, 9", "WRITE X1, X2", "PRINT 3, 65", "EXIT", "LR X2", "FOO" }

ToLowerChar(c) == IF InStr(c, UpperChars) THEN Ch(LowerChars, PosIn(c, UpperChars)) ELSE c

(* the text from position i on with its letters in lower case, or           *)
(* alternating lower and upper case                                        *)
RECURSIVE RecasedFrom(_, _, _)
RecasedFrom(text, i, style) ==
    IF i > Len(text) THEN ""
    ELSE (IF style = "lower" \/ i % 2 = 1 THEN ToLowerChar(Ch(text, i))
          ELSE ToUpperChar(Ch(text, i)))
         \o RecasedFrom(text, i + 1, style)

RecasedText(text, style) == RecasedFrom(text, 1, style)

(* the line with the letter case of its mnemonic changed; other lines as they are *)
RecasedLine(text, style) ==
    IF KindOf(TrimLeft(text)) # "Instruction" THEN text
    ELSE IF FindFirstBlank(text) = 0 THEN RecasedText(text, style)
    ELSE RecasedText(SubSeq(text, 1, FindFirstBlank(text) - 1), style)
         \o Substr(text, FindFirstBlank(text))

Recased(file, style) == [n \in 1..Len(file) |-> RecasedLine(file[n], style)]

CaseBases == { <<"out", "out">>, <<"out", "rom">>, <<"out", "">>, <<"", "out">> }

InitCase ==
    \E s \in FilesOver(CaseCorpus, MaxCaseLines), style \in {"lower", "alternating"},
       bases \in CaseBases :
        ConstructedIn(<<s, Recased(s, style)>>, bases,
                      PlainFileSystem(<<s, Recased(s, style)>>))

SpecCase == InitCase /\ [][Next]_vars

(* the lines of run r that got a Pass 2 diagnostic *)
DiagnosedIn(r) ==
    { errlog[k].line : k \in { i \in 1..Len(errlog) : errlog[i].run = r /\ errlog[i].pass = 2 } }

(***************************************************************************)
(* C18: mnemonic case-insensitivity.  Changing the letter case of the      *)
(* mnemonic of every instruction line leaves the encoded words and the     *)
(* error outcome of every line unchanged: same Program and banks, same     *)
(* label table, same lines diagnosed.                                      *)
(***************************************************************************)
C18_MnemonicCaseInsensitive ==
    (Finished /\ run = 2) =>
        /\ results[2] = results[1]
        /\ (WrittenIn(1) # {} /\ WrittenIn(2) = WrittenIn(1)) =>
               outputs[2] = outputs[1]
        /\ DiagnosedIn(2) = DiagnosedIn(1)

(* `bEq X3` encoded like `BEQ X3` (0x00030144), `fOo` rejected like `FOO` *)
C18_Witness ==
    /\ Finished
    /\ run = 2
    /\ console[1].outputBase = "out"
    /\ outputBase = "rom"
    /\ Len(outputs) = 2
    /\ files = << <<"BEQ X3", "FOO">>, <<"bEq X3", "fOo">> >>
    /\ instructions = << <<3, 324>> >>
    /\ DiagnosedIn(2) = {2}

(***************************************************************************)
(* Sources of the comment specification: up to MaxCommentLines lines with  *)
(* block comments that open, close, span lines, hide or are hidden by a    *)
(* line comment, and with `/*/` and `*//`.                                 *)
(***************************************************************************)
MaxCommentLines == 3

CommentCorpus ==
    { "a/*b", "c*/d", "e//f/*g", "/*/h", "i/**/j*/", "k/*l*/m/*n", "*//o", "/*p//q*/r" }

InitComments == \E s \in FilesOver(CommentCorpus, MaxCommentLines) : Constructed(<<s>>)

SpecComments == InitComments /\ [][Next]_vars

(* the source as one stream of characters, every line ended by a line feed *)
RECURSIVE Stream(_, _)
Stream(file, n) == IF n > Len(file) THEN "" ELSE file[n] \o "\n" \o Stream(file, n + 1)

(***************************************************************************)
(* The comment structure of the whole source, read as one stream from      *)
(* position i in mode "code", "block" (inside a block comment) or "line"   *)
(* (after a `//`): kept is what is kept of the current line so far, done   *)
(* holds, for every line ended, what was kept of it and whether it ended   *)
(* inside a block comment.                                                 *)
(***************************************************************************)
RECURSIVE Scan(_, _, _, _, _)
Scan(stream, i, mode, kept, done) ==
    IF i > Len(stream) THEN done
    ELSE IF Ch(stream, i) = "\n"
    THEN Scan(stream, i + 1, IF mode = "block" THEN "block" ELSE "code", "",
              Append(done, [line |-> kept, inMultiline |-> (mode = "block")]))
    ELSE IF mode = "block"
    THEN IF SubSeq(stream, i, i + 1) = "*/" THEN Scan(stream, i + 2, "code", kept, done)
         ELSE Scan(stream, i + 1, "block", kept, done)
    ELSE IF mode = "line" THEN Scan(stream, i + 1, "line", kept, done)
    ELSE IF SubSeq(stream, i, i + 1) = "/*" THEN Scan(stream, i + 2, "block", kept, done)
    ELSE IF SubSeq(stream, i, i + 1) = "//" THEN Scan(stream, i + 2, "line", kept, done)
    ELSE Scan(stream, i + 1, "code", kept \o Ch(stream, i), done)

CommentStructure(file) == Scan(Stream(file, 1), 1, "code", "", <<>>)

(***************************************************************************)
(* C19: comment stripping over a sequence of lines.  Starting with the     *)
(* flag cleared, after each line read in either pass the text left of the  *)
(* line is exactly its characters that lie outside every block comment of  *)
(* the source (a block comment starts at the first `/*` met outside a      *)
(* comment and ends at the next `*/`, also on a later line) and before any *)
(* `//` met outside a block comment on the line; the flag is set exactly   *)
(* when the line ends inside an unclosed block comment.                    *)
(***************************************************************************)
C19_CommentStructure ==
    (phase \in {"pass1", "pass2"} /\ lineNo >= 1) =>
        /\ lineText = CommentStructure(files[run])[lineNo].line
        /\ inMultiline = CommentStructure(files[run])[lineNo].inMultiline

(* a block comment opened on the first line and closed on the second *)
C19_Witness ==
    /\ phase = "pass2"
    /\ files[run] = <<"a/*b", "c*/d", "/*/h">>
    /\ lineNo = 2
    /\ lineText = "d"
    /\ inMultiline = FALSE

(***************************************************************************)
(* C20: in Pass 1 the program counter increases by exactly one on each     *)
(* Instruction-kind line and is unchanged on every other line: blank       *)
(* lines, Label lines, #ALIAS directive lines and lines that start with a  *)
(* line-comment marker (`;`, or `#` that is not the directive prefix).     *)
(***************************************************************************)
C20_PcCountsInstructionLines ==
    [][(phase = "pass1" /\ lineNo' = lineNo + 1)
           => pc' = pc + (IF KindOf(TrimLeft(lineText')) = "Instruction" THEN 1 ELSE 0)]_vars

(***************************************************************************)
(* C21: in Pass 2 a line whose first non-blank character is `;` or `#` is  *)
(* not an instruction: it appends no word to the Program and gets no       *)
(* diagnostic, so the Program is that of the source without the line.      *)
(***************************************************************************)
C21_CommentLineAppendsNothing ==
    Finished =>
        LET stripped == StrippedLines(files[run])
        IN  \A n \in 1..Len(files[run]) :
                (n <= pass2Read /\ KindOf(TrimLeft(stripped[n])) \in {"Comment", "Directive"})
                    => ~HasWord(n) /\ ~Diagnosed(n)

(***************************************************************************)
(* C22: every label address recorded by Pass 1 is strictly less than the   *)
(* value of the program counter when Pass 1 finishes, for every source     *)
(* (a source whose last non-blank line is a label included).               *)
(***************************************************************************)
Pass1Finished == phase \in {"pass2", "emit", "done"}

C22_LabelAddressBelowPc ==
    Pass1Finished => \A i \in 1..Len(symbolTable) : symbolTable[i].address < pc

(* C22 as the code has it: every label address recorded by Pass 1 is at    *)
(* most the value of the program counter when Pass 1 finishes, and it is   *)
(* strictly less exactly when Pass 1 read, after the label, a line that is *)
(* neither blank, nor a label, nor an #ALIAS directive.                    *)
C22_LabelAddressAtMostPc ==
    Pass1Finished =>
        \A i \in 1..Len(symbolTable) :
            /\ symbolTable[i].address <= pc
            /\ symbolTable[i].address < pc
                   <=> \E n \in (labelLine[i] + 1)..pass1Read :
                           KindOf(TrimLeft(StrippedLines(files[run])[n]))
                               \notin {"Blank", "Label", "Directive"}

C22_Witness ==
    /\ Finished
    /\ files[run] = <<"loop:", "ADD X0, X1, X2", "loop:">>
    /\ pc = 1
    /\ symbolTable = <<[name |-> "loop", address |-> 0], [name |-> "loop", address |-> 1]>>

(***************************************************************************)
(* Sources of the upsert specification: files of at most MaxUpsertLines    *)
(* lines drawn from #ALIAS directives, valid and invalid, that repeat the  *)
(* alias names, and from a use of an alias.                                *)
(***************************************************************************)
MaxUpsertLines == 3

UpsertCorpus ==
    { "#ALIAS X1 foo", "#ALIAS X2 foo", "  #ALIAS x7 foo // c", "#ALIAS x5 bar_1",
      "#ALIAS X6 bar_1", "#ALIAS X9 foo", "#ALIAS X3 fo-o", "#ALIAS X4 MOV",
      "#ALIAS foo bar_1", "MOV foo, 5" }

InitUpsert == \E s \in FilesOver(UpsertCorpus, MaxUpsertLines) : Constructed(<<s>>)

SpecUpsert == InitUpsert /\ [][Next]_vars

(* what a stripped line says as a directive: whether it is a valid one (a  *)
(* register X0..X7 and a valid alias name), its alias name, its register   *)
DirectiveOf(text) ==
    LET words == IF KindOf(TrimLeft(text)) = "Directive"
                 THEN Words(Substr(TrimLeft(text), 7)) ELSE <<>>
        Read(w) ==
            IF Len(w) < 2 THEN [valid |-> FALSE, name |-> "", register |-> ""]
            ELSE [valid |-> /\ w[1] \in { "X" \o ToDecimal(r) : r \in 0..(NumRegs - 1) }
                                       \cup { "x" \o ToDecimal(r) : r \in 0..(NumRegs - 1) }
                            /\ isValidAliasName(w[2]),
                  name |-> w[2], register |-> w[1]]
    IN  Read(words)

(* the valid directives for a name among the directives read *)
ValidDirectivesFor(name, directives) ==
    { k \in 1..Len(directives) : directives[k].valid /\ directives[k].name = name }

Greatest(S) == CHOOSE x \in S : \A y \in S : y <= x

UpsertNames == {"foo", "bar_1", "fo-o", "MOV"}

(***************************************************************************)
(* C23: alias upsert.  After Pass 1, for any sequence of #ALIAS            *)
(* directives, the alias table holds at most one entry per alias name, and *)
(* the register of that entry is the register of the last valid directive  *)
(* for that name read by Pass 1.                                           *)
(***************************************************************************)
C23_AliasUpsert ==
    Pass1Finished =>
        LET stripped == StrippedLines(files[run])
            directives == SubSeq([k \in 1..Len(stripped) |-> DirectiveOf(stripped[k])],
                                 1, pass1Read)
        IN  /\ \A i, j \in 1..Len(aliasTable) :
                   aliasTable[i].alias = aliasTable[j].alias => i = j
            /\ \A i \in 1..Len(aliasTable) : aliasTable[i].alias \in UpsertNames
            /\ \A name \in UpsertNames :
                   LET entries == { i \in 1..Len(aliasTable) : aliasTable[i].alias = name }
                       valid == ValidDirectivesFor(name, directives)
                   IN  IF valid = {} THEN entries = {}
                       ELSE \E i \in entries :
                                aliasTable[i].registerName
                                    = directives[Greatest(valid)].register

C23_Witness ==
    /\ Finished
    /\ files[run] = <<"#ALIAS X1 foo", "  #ALIAS x7 foo // c", "#ALIAS X9 foo">>
    /\ aliasTable = <<[alias |-> "foo", registerName |-> "x7"]>>
    /\ Len(PassLog) = 1

(***************************************************************************)
(* Sources of the directive specification: one #ALIAS directive, for every *)
(* register token of DirectiveRegisters and every alias name of            *)
(* DirectiveNames, after a lead and before a use of the name.              *)
(***************************************************************************)
DirectiveRegisters == {"X0", "X7", "x3", "X8", "X10", "X-1", "Y1", "X", "Xfoo", "7"}

DirectiveNames ==
    {"foo", "bar_1", "", "fo-o", "a.b", "ADD", "XOR", "MOV", "CMP", "B", "BEQ", "BLS",
     "READ", "WRITE", "PRINT", "EXIT", "NOT", "LR"}

DirectiveLeads == {<<>>, <<"top:", "ADD X0, X1, X2">>}

DirectiveSource(lead, reg, name) ==
    lead \o <<"#ALIAS " \o reg \o " " \o name, "MOV " \o name \o ", 1">>

InitDirective ==
    \E lead \in DirectiveLeads, reg \in DirectiveRegisters, name \in DirectiveNames :
        Constructed(<<DirectiveSource(lead, reg, name)>>)

SpecDirective == InitDirective /\ [][Next]_vars

(* the instruction mnemonics the assembler accepts *)
AcceptedMnemonics == AluMnemonicSet \cup ReservedMnemonics \cup {"LR"}

(* the directive of a stripped line is one that has to be rejected *)
MustReject(text) ==
    LET words == Words(Substr(TrimLeft(text), 7))
        Bad(reg, name) ==
            \/ reg \notin { "X" \o ToDecimal(r) : r \in 0..(NumRegs - 1) }
                          \cup { "x" \o ToDecimal(r) : r \in 0..(NumRegs - 1) }
            \/ name = ""
            \/ \E i \in 1..Len(name) : ~(IsAlnum(Ch(name, i)) \/ Ch(name, i) = "_")
            \/ name \in AcceptedMnemonics
    IN  Bad(IF Len(words) >= 1 THEN words[1] ELSE "",
            IF Len(words) >= 2 THEN words[2] ELSE "")

(***************************************************************************)
(* C24: an #ALIAS directive is rejected when its register is not X0..X7,   *)
(* or when its alias name is empty, contains a character that is not       *)
(* alphanumeric or underscore, or equals an instruction mnemonic the       *)
(* assembler accepts (ALU names, MOV, CMP, branches, READ, WRITE, PRINT,   *)
(* EXIT, NOT, LR); a rejected directive leaves the alias table, the label  *)
(* table and the program counter unchanged, a diagnostic is emitted, and   *)
(* Pass 1 goes on with the next line.                                      *)
(***************************************************************************)
C24_DirectiveRejected ==
    [][(phase = "pass1" /\ lineNo' = lineNo + 1
            /\ KindOf(TrimLeft(lineText')) = "Directive" /\ MustReject(lineText'))
           => /\ aliasTable' = aliasTable
              /\ symbolTable' = symbolTable
              /\ pc' = pc
              /\ Len(errlog') = Len(errlog) + 1
              /\ errlog'[Len(errlog')].pass = 1
              /\ phase' = "pass1"]_vars

(***************************************************************************)
(* Sources of the duplicate-label specification: files of at most          *)
(* MaxDupLines lines drawn from definitions of two labels, repeated, an    *)
(* instruction, and branches to the labels.                                *)
(***************************************************************************)
MaxDupLines == 4

DupCorpus == { "top:", "  top:  // again", "end:", "ADD X0, X1, X2", "B top", "BNE end" }

DupLabels == {"top", "end"}

InitDup == \E s \in FilesOver(DupCorpus, MaxDupLines) : Constructed(<<s>>)

SpecDup == InitDup /\ [][Next]_vars

(* the lines of a stripped file that define the label / that branch to it *)
DefinitionsOf(name, stripped) ==
    { n \in 1..Len(stripped) :
          KindOf(TrimLeft(stripped[n])) = "Label" /\ parseLabel(TrimLeft(stripped[n])) = name }

BranchesTo(name, stripped) ==
    { n \in 1..Len(stripped) : stripped[n] \in {"B " \o name, "BNE " \o name} }

(* the address Pass 1 recorded for the label line n *)
RecordedAddress(n) ==
    symbolTable[CHOOSE i \in 1..Len(labelLine) : labelLine[i] = n].address

(***************************************************************************)
(* C25: duplicate labels.  Defining the same label name twice adds a       *)
(* second entry to the label table without any diagnostic, and every       *)
(* lookup of that name, for every branch in the source, returns the        *)
(* address of the first definition in source order.                        *)
(***************************************************************************)
C25_DuplicateLabels ==
    Finished =>
        LET stripped == StrippedLines(files[run])
        IN  \A name \in DupLabels :
                LET defs == DefinitionsOf(name, stripped)
                IN  /\ Cardinality({ i \in 1..Len(symbolTable) : symbolTable[i].name = name })
                           = Cardinality(defs)
                    /\ \A n \in defs : ~Diagnosed(n)
                    /\ \A k \in 1..Len(errlog) : errlog[k].pass # 1
                    /\ defs # {} =>
                           \A n \in BranchesTo(name, stripped) :
                               /\ HasWord(n)
                               /\ instructions[WordIndex(n)][1] = RecordedAddress(Least(defs))

C25_Witness ==
    /\ Finished
    /\ files[run] = <<"top:", "ADD X0, X1, X2", "  top:  // again", "B top">>
    /\ symbolTable = <<[name |-> "top", address |-> 0], [name |-> "top", address |-> 1]>>
    /\ instructions = << <<2, 4100>>, <<0, 69>> >>
    /\ PassLog = <<>>

(***************************************************************************)
(* Sources of the branch specification: after a lead of at most            *)
(* MaxBranchLead instructions and the label `target:`, one branch, for     *)
(* every branch mnemonic and every operand: an immediate in one of its     *)
(* spellings, the label, or a register.                                    *)
(***************************************************************************)
MaxBranchLead == 2

(* the condition code of every branch mnemonic *)
ConditionCodes ==
    { <<"B", 0>>, <<"BEQ", 1>>, <<"BNE", 2>>, <<"BLT", 3>>, <<"BLE", 4>>, <<"BGT", 5>>,
      <<"BGE", 6>>, <<"BCS", 7>>, <<"BCC", 8>>, <<"BMI", 9>>, <<"BPL", 10>>, <<"BVS", 11>>,
      <<"BVC", 12>>, <<"BHI", 13>>, <<"BLS", 14>> }

(* immediate operands, each with the address it denotes *)
BranchImmediates ==
    { <<"0", 0>>, <<"1", 1>>, <<"255", 255>>, <<"256", 256>>, <<"65535", 65535>>,
      <<"0xFFFF", 65535>>, <<"0b101", 5>>, <<"0x0", 0>>, <<"0b0", 0>>, <<"'a'", 97>> }

(* register operands, each with its register number *)
BranchRegisters ==
    { <<RegisterToken(r), r>> : r \in 0..(NumRegs - 1) } \cup { <<"x3", 3>> }

BranchLead(k) == [i \in 1..k |-> "ADD X0, X1, X2"]

BranchFile(k, mn, operand) == BranchLead(k) \o <<"target:", mn \o " " \o operand>>

InitBranch ==
    \E k \in 0..MaxBranchLead, cc \in ConditionCodes,
       op \in BranchImmediates \cup BranchRegisters \cup {<<"target", -1>>} :
        Constructed(<<BranchFile(k, cc[1], op[1])>>)

SpecBranch == InitBranch /\ [][Next]_vars

(* the branch line of the current file: its number, mnemonic and operand *)
BranchLineNo == Len(files[run])

BranchMnemonic == Words(files[run][BranchLineNo])[1]

BranchOperand == Words(files[run][BranchLineNo])[2]

(* the word opcode | c << 8 | field << 16, as its two halves *)
BranchWord(opcode, c, field) == <<field, opcode + c * 256>>

(***************************************************************************)
(* C26: branch encoding.  For every branch mnemonic with condition code c  *)
(* (B=0, BEQ=1, ..., BLS=14), a branch to an immediate or label address t  *)
(* in 0..65535 encodes to (BRANCH_I opcode) | c<<8 | t<<16 and a branch to *)
(* register Xr encodes to (BRANCH opcode) | c<<8 | r<<16, with bits 12-15  *)
(* zero in both forms and bits 19-31 zero in the register form.            *)
(***************************************************************************)
C26_BranchEncoding ==
    Finished =>
        \A cc \in ConditionCodes :
            cc[1] = BranchMnemonic =>
                /\ \A op \in BranchImmediates :
                       op[1] = BranchOperand =>
                           /\ HasWord(BranchLineNo)
                           /\ instructions[WordIndex(BranchLineNo)]
                                  = BranchWord(CatalogueOpcode("B", "TYPE_BRANCH", TRUE),
                                               cc[2], op[2])
                /\ BranchOperand = "target" =>
                       /\ HasWord(BranchLineNo)
                       /\ instructions[WordIndex(BranchLineNo)]
                              = BranchWord(CatalogueOpcode("B", "TYPE_BRANCH", TRUE),
                                           cc[2], BranchLineNo - 2)
                /\ \A op \in BranchRegisters :
                       op[1] = BranchOperand =>
                           /\ HasWord(BranchLineNo)
                           /\ instructions[WordIndex(BranchLineNo)]
                                  = BranchWord(CatalogueOpcode("B", "TYPE_BRANCH", FALSE),
                                               cc[2], op[2])

(***************************************************************************)
(* Sources of the bad-constant specification: one instruction of every     *)
(* form with an immediate position, that position holding a token that is  *)
(* neither a register nor a literal.                                       *)
(***************************************************************************)
BadConstants == {"foo", "12ab", "0xZZ", "0b12", "'ab'", "5.5", "X1Y"}

BadConstantLine(form, token) ==
    CASE form = "MOV"    -> "MOV X0, " \o token
      [] form = "CMP"    -> "CMP X1, " \o token
      [] form = "ALU3"   -> "ADD X0, X1, " \o token
      [] form = "ALU2"   -> "XOR X2, " \o token
      [] form = "READ"   -> "READ X0, " \o token
      [] form = "WRITE"  -> "WRITE X0, " \o token
      [] form = "PRINTD" -> "PRINT " \o token \o ", 3"
      [] form = "PRINTP" -> "PRINT X1, " \o token
      [] form = "PRINTC" -> "PRINT 65, " \o token

ImmediateForms ==
    {"MOV", "CMP", "ALU3", "ALU2", "READ", "WRITE", "PRINTD", "PRINTP", "PRINTC"}

BadConstantLeads == {<<>>, <<"ADD X0, X1, X2">>}

InitBadConstant ==
    \E lead \in BadConstantLeads, form \in ImmediateForms, token \in BadConstants :
        Constructed(<<lead \o <<BadConstantLine(form, token)>>>>)

SpecBadConstant == InitBadConstant /\ [][Next]_vars

(***************************************************************************)
(* C27: bad constant.  For every instruction form with an immediate        *)
(* position (MOV, CMP, ALU, READ, WRITE, PRINT), an operand token that is  *)
(* neither a register, nor a decimal, 0x-hex or 0b-binary literal, nor a   *)
(* quoted character literal makes the line a per-line failure: the error   *)
(* flag is set and no word is appended.                                    *)
(***************************************************************************)
C27_BadConstantRejected ==
    Finished => Diagnosed(Len(files[run])) /\ ~HasWord(Len(files[run]))

(***************************************************************************)
(* Sources of the character-literal specification: one instruction with    *)
(* the operand 'c' in an immediate position, for every character c of      *)
(* LiteralChars and every form of LiteralForms.                            *)
(***************************************************************************)
LiteralChars == { Ch(ByteChars, i) : i \in 1..127 } \ {"\n"}

LiteralForms == {"PRINT 0, ", "MOV X0, ", "ADD X1, X2, "}

InitLiteral ==
    \E form \in LiteralForms, c \in LiteralChars : Constructed(<<<<form \o "'" \o c \o "'">>>>)

SpecLiteral == InitLiteral /\ [][Next]_vars

(* the character between the quotes that end the line *)
LiteralChar(text) == Ch(text, Len(text) - 1)

(* the immediate field of the word the form encodes: the upper byte for    *)
(* PRINT, the upper half-word for MOV and ADD                              *)
LiteralField(text, word) ==
    IF SubSeq(text, 1, 5) = "PRINT" THEN word[1] \div 256 ELSE word[1]

(***************************************************************************)
(* C28: character literal.  For every single ASCII character c, an         *)
(* instruction with the operand 'c' in an immediate position is classified *)
(* as an instruction line and encodes the immediate value equal to the     *)
(* character code of c.                                                    *)
(***************************************************************************)
C28_CharacterLiteral ==
    Finished =>
        /\ symbolTable = <<>>
        /\ pc = 1
        /\ ~Diagnosed(1)
        /\ HasWord(1)
        /\ LiteralField(files[run][1], instructions[WordIndex(1)])
               = CharCode(LiteralChar(files[run][1]))

(***************************************************************************)
(* Sources of the resolution specification: after a lead of lines that     *)
(* fail to encode (none, or one less than the capacity), at most           *)
(* MaxResolveLines lines drawn from #ALIAS directives for one name, valid  *)
(* and invalid, and a use of the name.                                     *)
(***************************************************************************)
MaxResolveLines == 3

ResolveCorpus == { "#ALIAS X1 foo", "#ALIAS x2 foo", "#ALIAS X9 foo", "MOV foo, 5" }

ResolveLeads == {0, MAX_INSTR - 1}

InitResolve ==
    \E n \in ResolveLeads, s \in FilesOver(ResolveCorpus, MaxResolveLines) :
        Constructed(<< [i \in 1..n |-> "FOO"] \o s >>)

SpecResolve == InitResolve /\ [][Next]_vars

(* the number of a register token *)
TokenRegister(token) == Atoi(Substr(token, 2))

(***************************************************************************)
(* C29: alias resolution in Pass 2 uses the alias table as it stands at    *)
(* the end of Pass 1: a use of an alias resolves to the register of the    *)
(* last valid #ALIAS directive for that name in the whole source, also     *)
(* when that directive comes after the use or when an earlier directive    *)
(* for the same name precedes the use.                                     *)
(***************************************************************************)
C29_AliasResolvedFromWholeSource ==
    Finished =>
        LET stripped == StrippedLines(files[run])
            directives == [k \in 1..Len(stripped) |-> DirectiveOf(stripped[k])]
            valid == ValidDirectivesFor("foo", directives)
        IN  \A n \in 1..pass2Read :
                (stripped[n] = "MOV foo, 5" /\ valid # {}) =>
                    /\ HasWord(n)
                    /\ instructions[WordIndex(n)]
                           = <<5, CatalogueOpcode("MOV", "TYPE_MOVE", TRUE)
                                  + 256 * TokenRegister(directives[Greatest(valid)].register)>>

(***************************************************************************)
(* C30: every line that Pass 2 reads was read by Pass 1 before: for any    *)
(* source the lines processed by Pass 2 are a prefix of the lines          *)
(* processed by Pass 1, so every label or alias defined on a line that     *)
(* Pass 2 reaches is present in the tables Pass 2 consults.                *)
(***************************************************************************)
C30_Pass2WithinPass1 ==
    Pass1Finished =>
        LET stripped == StrippedLines(files[run])
        IN  /\ pass2Read <= pass1Read
            /\ \A n \in 1..pass2Read :
                   /\ KindOf(TrimLeft(stripped[n])) = "Label"
                          => \E i \in 1..Len(symbolTable) :
                                 symbolTable[i].name = parseLabel(TrimLeft(stripped[n]))
                   /\ DirectiveOf(stripped[n]).valid
                          => \E i \in 1..Len(aliasTable) :
                                 aliasTable[i].alias = DirectiveOf(stripped[n]).name
====
